---- MODULE Spec2Model ----
(***************************************************************************)
(* A model of cp_coach_mcp.py: the session handle registry and the tools   *)
(* that use it (Spec), the contest aggregator fetch_upcoming_contests      *)
(* (SpecContests) and the submission pass of fetch_codeforces_profile      *)
(* (SpecStats).                                                            *)
(*                                                                         *)
(* Python strings are sequences of one-character strings, so that split,   *)
(* strip, lower and the f-string concatenations are computed, not assumed. *)
(* The server runs on one asyncio event loop: a handler runs without       *)
(* interruption between two awaits that really suspend (the httpx          *)
(* requests); awaiting the stub fetchers does not suspend.                 *)
(***************************************************************************)
EXTENDS Integers, Sequences, FiniteSets, TLC

VARIABLES
    user_handles,   \* the module-level dict user_handles (line 72)
    call,           \* per client slot: the tool invocation in progress
    ncalls,         \* invocations started so far (bounds the run)
    cpc,            \* fetch_upcoming_contests: position in the function
    clock,          \* wall clock in half seconds, as datetime.now() reads it
    cf_payload,     \* the Codeforces contest.list reply of this run
    at_payload,     \* the AtCoder contests.json reply of this run
    contests,       \* the local list `contests`
    at_time,        \* current_time read at line 253
    final_time,     \* current_time read at line 329
    cresult,        \* what fetch_upcoming_contests returned (or raised)
    spc,            \* fetch_codeforces_profile: position in the function
    user_reply,     \* the user.info reply
    subs_reply,     \* the user.status reply
    si,             \* index of the next submission of the loop
    solved_problems,
    problem_difficulties,
    problem_tags,
    recent_activity,
    submission_patterns,
    sresult,        \* what fetch_codeforces_profile returned
    rpc,            \* the renderers: which one has run
    rprofiles,      \* the argument profiles
    rgoal,          \* the argument goal
    rresult         \* what the renderer returned (or that it raised)

toolVars == <<user_handles, call, ncalls>>
contestVars == <<cpc, clock, cf_payload, at_payload, contests, at_time, final_time, cresult>>
statVars == <<spc, user_reply, subs_reply, si, solved_problems, problem_difficulties,
              problem_tags, recent_activity, submission_patterns, sresult>>
renderVars == <<rpc, rprofiles, rgoal, rresult>>
vars == <<toolVars, contestVars, statVars, renderVars>>

(***************************************************************************)
(* Bounds of the model                                                     *)
(***************************************************************************)
MaxCalls == 3

(***************************************************************************)
(* Strings                                                                 *)
(***************************************************************************)
UpperLetters == <<"A","B","C","D","E","F","G","H","I","J","K","L","M",
                  "N","O","P","Q","R","S","T","U","V","W","X","Y","Z">>
LowerLetters == <<"a","b","c","d","e","f","g","h","i","j","k","l","m",
                  "n","o","p","q","r","s","t","u","v","w","x","y","z">>

\* str.lower(), one character
LowerChar(c) ==
    IF \E i \in DOMAIN UpperLetters : UpperLetters[i] = c
    THEN LowerLetters[CHOOSE i \in DOMAIN UpperLetters : UpperLetters[i] = c]
    ELSE c

\* str.lower()
Lower(s) == [i \in 1..Len(s) |-> LowerChar(s[i])]

IsSpace(c) == c \in {" ", "\t", "\n"}

\* str.strip()
Strip(s) ==
    LET keep == {i \in 1..Len(s) : ~IsSpace(s[i])}
    IN  IF keep = {} THEN <<>>
        ELSE LET lo == CHOOSE i \in keep : \A j \in keep : i <= j
                 hi == CHOOSE i \in keep : \A j \in keep : j <= i
             IN  SubSeq(s, lo, hi)

\* `ch in s` for a one-character ch
HasChar(s, ch) == \E i \in 1..Len(s) : s[i] = ch

FirstIndex(s, ch) == CHOOSE i \in 1..Len(s) : s[i] = ch /\ \A j \in 1..(i-1) : s[j] # ch

\* s.split(ch)
RECURSIVE Split(_, _)
Split(s, ch) ==
    IF ~HasChar(s, ch) THEN <<s>>
    ELSE LET k == FirstIndex(s, ch)
         IN  <<SubSeq(s, 1, k-1)>> \o Split(SubSeq(s, k+1, Len(s)), ch)

\* s.split(ch, 1) for an s that contains ch
Split1(s, ch) ==
    LET k == FirstIndex(s, ch)
    IN  <<SubSeq(s, 1, k-1), SubSeq(s, k+1, Len(s))>>

\* sep.join(list)
RECURSIVE Join(_, _)
Join(list, sep) ==
    IF Len(list) = 0 THEN <<>>
    ELSE IF Len(list) = 1 THEN list[1]
    ELSE list[1] \o sep \o Join(Tail(list), sep)

CODEFORCES == <<"c","o","d","e","f","o","r","c","e","s">>
LEETCODE == <<"l","e","e","t","c","o","d","e">>
CODECHEF == <<"c","o","d","e","c","h","e","f">>

Range(s) == {s[i] : i \in 1..Len(s)}

(***************************************************************************)
(* Session handle registry                                                 *)
(***************************************************************************)
USER_ID == "default_user"

EmptyDict == [k \in {} |-> <<>>]

\* user_handles[user_id], or the empty list when the key is absent
Registry(uh) == IF USER_ID \in DOMAIN uh THEN uh[USER_ID] ELSE <<>>

\* a defect: the list is rebuilt on every store
StoreHandleOverwrite(uh, handle_string) == [k \in {USER_ID} |-> <<handle_string>>]

\* a defect: the membership test of line 769 is missing
StoreHandleNoDedup(uh, handle_string) ==
    [k \in {USER_ID} |-> Append(Registry(uh), handle_string)]

\* lines 764-770: create the list if absent, append if not already stored
StoreHandle(uh, handle_string) ==
    LET d == IF USER_ID \in DOMAIN uh THEN uh ELSE [k \in {USER_ID} |-> <<>>]
    IN  IF handle_string \in Range(d[USER_ID]) THEN d
        ELSE [d EXCEPT ![USER_ID] = Append(@, handle_string)]

(***************************************************************************)
(* Profile fetchers, as the tools see them                                 *)
(***************************************************************************)
NoStr == <<>>

\* {"error": ...}
ErrorMarker ==
    [error |-> TRUE, handle |-> NoStr, rating |-> 0, problemsSolved |-> 0, platform |-> NoStr]

fetch_leetcode_profile(handle) ==
    [error |-> FALSE, handle |-> handle, rating |-> 1500, problemsSolved |-> 150, platform |-> NoStr]

fetch_codechef_profile(handle) ==
    [error |-> FALSE, handle |-> handle, rating |-> 1400, problemsSolved |-> 80, platform |-> NoStr]

\* what fetch_codeforces_profile(handle) can return: an error marker
\* (user not found, or any exception) or a statistics record
CodeforcesOutcomes(handle) ==
    {ErrorMarker,
     [error |-> FALSE, handle |-> handle, rating |-> 1200, problemsSolved |-> 10, platform |-> NoStr]}

(***************************************************************************)
(* Tool invocations                                                        *)
(***************************************************************************)
\* two clients, so that two invocations can be in flight together
Slots == {1, 2}

NoResponse == [kind |-> "none", stored |-> <<>>, profiles |-> <<>>, goal |-> "general"]

Response(kind) == [NoResponse EXCEPT !.kind = kind]

\* One invocation: its arguments and locals. handles_arg is the handles
\* argument as the client passed it, handles the local of that name after
\* lines 819-826. fetches lists the fetcher calls it has made; overlapped
\* records that another add_coding_profile was suspended at its fetch when this
\* one resumed.
NewCall(tool) ==
    [tool |-> tool, pc |-> "running", platform |-> NoStr, handle |-> NoStr,
     handles_arg |-> NoStr, handles |-> NoStr, goal |-> "general", pairs |-> <<>>, idx |-> 1,
     profiles |-> <<>>, fetches |-> <<>>, usedRegistry |-> FALSE,
     overlapped |-> FALSE, response |-> NoResponse]

IdleCall == [NewCall("none") EXCEPT !.pc = "idle"]

Return(c, response) == [c EXCEPT !.pc = "done", !.response = response]

CanStart(p) == call[p].pc \in {"idle", "done"} /\ ncalls < MaxCalls

\* lines 714-717
validate(p) ==
    /\ CanStart(p)
    /\ call' = [call EXCEPT ![p] = Return(NewCall("validate"), Response("MyNumber"))]
    /\ ncalls' = ncalls + 1
    /\ UNCHANGED user_handles
    /\ UNCHANGED <<contestVars, statVars, renderVars>>

\* a defect: the response lists the handles as they were before the store
AddFinishEchoBefore(c, uh, profile_data) ==
    IF profile_data.error
    THEN [call |-> Return(c, Response("ProfileNotFound")), user_handles |-> uh]
    ELSE LET handle_string == c.platform \o <<":">> \o c.handle
             stored == StoreHandle(uh, handle_string)
         IN  [call |-> Return(c, [Response("Verified") EXCEPT
                                     !.stored = Registry(uh),
                                     !.profiles = <<profile_data>>]),
              user_handles |-> stored]

\* a defect: the handle is stored before the fetched profile is looked at
AddFinishStoreFirst(c, uh, profile_data) ==
    LET handle_string == c.platform \o <<":">> \o c.handle
        stored == StoreHandle(uh, handle_string)
    IN  IF profile_data.error
        THEN [call |-> Return(c, Response("ProfileNotFound")), user_handles |-> stored]
        ELSE [call |-> Return(c, [Response("Verified") EXCEPT
                                     !.stored = stored[USER_ID],
                                     !.profiles = <<profile_data>>]),
              user_handles |-> stored]

\* lines 756-793: the part of add_coding_profile after the fetch; it contains
\* no await, so it is one step
AddFinish(c, uh, profile_data) ==
    IF profile_data.error
    THEN [call |-> Return(c, Response("ProfileNotFound")), user_handles |-> uh]
    ELSE LET handle_string == c.platform \o <<":">> \o c.handle
             stored == StoreHandle(uh, handle_string)
         IN  [call |-> Return(c, [Response("Verified") EXCEPT
                                     !.stored = stored[USER_ID],
                                     !.profiles = <<profile_data>>]),
              user_handles |-> stored]

\* a defect: the platform is looked at before the handle
AddStartPlatformFirst(c, uh) ==
    LET platform == Lower(c.platform)
        handle_arg == c.handle
        c1 == [c EXCEPT !.platform = platform]
    IN  IF platform \notin {CODEFORCES, LEETCODE, CODECHEF}
        THEN [call |-> Return(c1, Response("UnsupportedPlatform")), user_handles |-> uh]
        ELSE IF handle_arg = NoStr
        THEN [call |-> Return(c1, Response("HandleRequired")), user_handles |-> uh]
        ELSE IF platform = CODEFORCES
        THEN [call |-> [c1 EXCEPT !.pc = "await_fetch",
                                  !.fetches = Append(@, <<platform, handle_arg>>)],
              user_handles |-> uh]
        ELSE AddFinish([c1 EXCEPT !.fetches = Append(@, <<platform, handle_arg>>)], uh,
                       IF platform = LEETCODE THEN fetch_leetcode_profile(handle_arg)
                       ELSE fetch_codechef_profile(handle_arg))

\* a defect: a platform that is none of the three is fetched from Codeforces
AddStartDefaultCodeforces(c, uh) ==
    IF c.handle = NoStr
    THEN [call |-> Return(c, Response("HandleRequired")), user_handles |-> uh]
    ELSE LET platform == Lower(c.platform)
             handle_arg == c.handle
             c1 == [c EXCEPT !.platform = platform]
         IN  IF platform = LEETCODE
             THEN AddFinish([c1 EXCEPT !.fetches = Append(@, <<platform, handle_arg>>)], uh,
                            fetch_leetcode_profile(handle_arg))
             ELSE IF platform = CODECHEF
             THEN AddFinish([c1 EXCEPT !.fetches = Append(@, <<platform, handle_arg>>)], uh,
                            fetch_codechef_profile(handle_arg))
             ELSE [call |-> [c1 EXCEPT !.pc = "await_fetch",
                                       !.fetches = Append(@, <<platform, handle_arg>>)],
                   user_handles |-> uh]

\* lines 734-754: add_coding_profile up to its first suspension or its return
AddStart(c, uh) ==
    IF c.handle = NoStr
    THEN [call |-> Return(c, Response("HandleRequired")), user_handles |-> uh]
    ELSE LET platform == Lower(c.platform)
             handle_arg == c.handle
             c1 == [c EXCEPT !.platform = platform]
         IN  IF platform = CODEFORCES
             THEN [call |-> [c1 EXCEPT !.pc = "await_fetch",
                                       !.fetches = Append(@, <<platform, handle_arg>>)],
                   user_handles |-> uh]
             ELSE IF platform = LEETCODE
             THEN AddFinish([c1 EXCEPT !.fetches = Append(@, <<platform, handle_arg>>)], uh,
                            fetch_leetcode_profile(handle_arg))
             ELSE IF platform = CODECHEF
             THEN AddFinish([c1 EXCEPT !.fetches = Append(@, <<platform, handle_arg>>)], uh,
                            fetch_codechef_profile(handle_arg))
             ELSE [call |-> Return(c1, Response("UnsupportedPlatform")), user_handles |-> uh]

PlatformArgs ==
    {CODEFORCES,
     <<"L","e","e","t","C","o","d","e">>,
     <<"t","o","p","c","o","d","e","r">>}

HandleArgs == {NoStr, <<"a">>, <<"a", ",", "b">>}

\* a client invokes add_coding_profile(platform, handle)
add_coding_profile(p) ==
    /\ CanStart(p)
    /\ \E platform \in PlatformArgs, handle \in HandleArgs :
          LET r == AddStart([NewCall("add") EXCEPT !.platform = platform,
                                                   !.handle = handle],
                            user_handles)
          IN  /\ call' = [call EXCEPT ![p] = r.call]
              /\ user_handles' = r.user_handles
    /\ ncalls' = ncalls + 1
    /\ UNCHANGED <<contestVars, statVars, renderVars>>

\* the awaited fetch_codeforces_profile of line 745 returns
add_coding_profile_resume(p) ==
    /\ call[p].tool = "add"
    /\ call[p].pc = "await_fetch"
    /\ \E profile_data \in CodeforcesOutcomes(call[p].handle) :
          LET others == \E q \in Slots \ {p} :
                            call[q].tool = "add" /\ call[q].pc = "await_fetch"
              r == AddFinish([call[p] EXCEPT !.pc = "running", !.overlapped = others],
                             user_handles, profile_data)
          IN  /\ call' = [call EXCEPT ![p] = r.call]
              /\ user_handles' = r.user_handles
    /\ UNCHANGED ncalls
    /\ UNCHANGED <<contestVars, statVars, renderVars>>

\* a defect: the renderer is called also when nothing was fetched
FinishPairsAlwaysRender(c) ==
    IF c.tool = "roast"
    THEN Return(c, [Response("Roast") EXCEPT !.profiles = c.profiles])
    ELSE Return(c, [Response("Recommendations") EXCEPT !.profiles = c.profiles,
                                                       !.goal = c.goal])

\* lines 856-864 (roast_my_coding) and 929-937 (recommend_problems): the fixed
\* message when nothing was fetched, the rendered text otherwise
FinishPairs(c) ==
    IF c.profiles = <<>> THEN Return(c, Response("NoValidProfiles"))
    ELSE IF c.tool = "roast"
    THEN Return(c, [Response("Roast") EXCEPT !.profiles = c.profiles])
    ELSE Return(c, [Response("Recommendations") EXCEPT !.profiles = c.profiles,
                                                       !.goal = c.goal])

\* lines 832-854 (roast_my_coding) and 905-927 (recommend_problems): the loop over
\* the pairs, run until a Codeforces fetch suspends it or the list is exhausted
RECURSIVE RunPairs(_)
RunPairs(c) ==
    IF c.idx > Len(c.pairs) THEN FinishPairs(c)
    ELSE LET pair == c.pairs[c.idx]
         IN  IF ~HasChar(pair, ":") THEN RunPairs([c EXCEPT !.idx = @ + 1])
             ELSE LET parts == Split1(Strip(pair), ":")
                      platform == Strip(Lower(parts[1]))
                      handle == Strip(parts[2])
                      fetched == [c EXCEPT !.fetches = Append(@, <<platform, handle>>)]
                  IN  IF platform = CODEFORCES
                      THEN [fetched EXCEPT !.pc = "await_fetch", !.platform = platform,
                                           !.handle = handle]
                      ELSE IF platform = LEETCODE
                      THEN RunPairs([fetched EXCEPT
                               !.idx = @ + 1,
                               !.profiles = Append(@, [fetch_leetcode_profile(handle)
                                                          EXCEPT !.platform = LEETCODE])])
                      ELSE IF platform = CODECHEF
                      THEN RunPairs([fetched EXCEPT
                               !.idx = @ + 1,
                               !.profiles = Append(@, [fetch_codechef_profile(handle)
                                                          EXCEPT !.platform = CODECHEF])])
                      ELSE RunPairs([c EXCEPT !.idx = @ + 1])

\* a defect: an error marker is kept among the profiles
ResumePairsKeepError(c, profile_data) ==
    RunPairs([c EXCEPT !.pc = "running",
                       !.idx = @ + 1,
                       !.profiles = Append(@, [profile_data EXCEPT !.platform = CODEFORCES])])

\* lines 842-844 / 915-917: the awaited Codeforces fetch returned profile_data
ResumePairs(c, profile_data) ==
    RunPairs([c EXCEPT !.pc = "running",
                       !.idx = @ + 1,
                       !.profiles = IF profile_data.error THEN @
                                    ELSE Append(@, [profile_data EXCEPT
                                                       !.platform = CODEFORCES])])

\* a defect: the registry is read with setdefault, which creates the key
PairsStartSetdefault(c, uh, handles_arg) ==
    LET d == IF USER_ID \in DOMAIN uh THEN uh ELSE [k \in {USER_ID} |-> <<>>]
    IN  IF handles_arg = NoStr
        THEN IF d[USER_ID] # <<>>
             THEN [call |-> RunPairs([c EXCEPT
                                !.handles = Join(d[USER_ID], <<",">>),
                                !.usedRegistry = TRUE,
                                !.pairs = Split(Join(d[USER_ID], <<",">>), ",")]),
                   user_handles |-> d]
             ELSE [call |-> Return(c, Response("NoHandles")), user_handles |-> d]
        ELSE [call |-> RunPairs([c EXCEPT !.handles = handles_arg,
                                          !.pairs = Split(handles_arg, ",")]),
              user_handles |-> uh]

\* a defect: stored handles are used whenever there are any
PairsStartRegistryFirst(c, uh, handles_arg) ==
    IF USER_ID \in DOMAIN uh /\ uh[USER_ID] # <<>>
    THEN [call |-> RunPairs([c EXCEPT
                       !.handles = Join(uh[USER_ID], <<",">>),
                       !.usedRegistry = TRUE,
                       !.pairs = Split(Join(uh[USER_ID], <<",">>), ",")]),
          user_handles |-> uh]
    ELSE IF handles_arg = NoStr
    THEN [call |-> Return(c, Response("NoHandles")), user_handles |-> uh]
    ELSE [call |-> RunPairs([c EXCEPT !.handles = handles_arg,
                                      !.pairs = Split(handles_arg, ",")]),
          user_handles |-> uh]

\* lines 816-830 (roast_my_coding) and 889-903 (recommend_problems): take the
\* handles argument or the stored handles, split it, and enter the loop
PairsStart(c, uh, handles_arg) ==
    IF handles_arg = NoStr
    THEN IF USER_ID \in DOMAIN uh /\ uh[USER_ID] # <<>>
         THEN [call |-> RunPairs([c EXCEPT
                            !.handles = Join(uh[USER_ID], <<",">>),
                            !.usedRegistry = TRUE,
                            !.pairs = Split(Join(uh[USER_ID], <<",">>), ",")]),
               user_handles |-> uh]
         ELSE [call |-> Return(c, Response("NoHandles")), user_handles |-> uh]
    ELSE [call |-> RunPairs([c EXCEPT !.handles = handles_arg,
                                      !.pairs = Split(handles_arg, ",")]),
          user_handles |-> uh]

HandlesArgs ==
    {NoStr,
     CODEFORCES \o <<":", "a">>,
     <<"L","e","e","t","C","o","d","e">> \o <<":", "b", ",", " ">> \o CODEFORCES \o <<":", "a">>,
     <<"t","o","p",":","a",",","b">>}

GoalArgs == {"general", "interview google"}

\* a client invokes roast_my_coding(handles)
roast_my_coding(p) ==
    /\ CanStart(p)
    /\ \E handles \in HandlesArgs :
          LET r == PairsStart([NewCall("roast") EXCEPT !.handles_arg = handles],
                              user_handles, handles)
          IN  /\ call' = [call EXCEPT ![p] = r.call]
              /\ user_handles' = r.user_handles
    /\ ncalls' = ncalls + 1
    /\ UNCHANGED <<contestVars, statVars, renderVars>>

\* the awaited fetch_codeforces_profile of line 841 returns
roast_my_coding_resume(p) ==
    /\ call[p].tool = "roast"
    /\ call[p].pc = "await_fetch"
    /\ \E profile_data \in CodeforcesOutcomes(call[p].handle) :
          call' = [call EXCEPT ![p] = ResumePairs(call[p], profile_data)]
    /\ UNCHANGED <<user_handles, ncalls>>
    /\ UNCHANGED <<contestVars, statVars, renderVars>>

\* a client invokes recommend_problems(goal, handles)
recommend_problems(p) ==
    /\ CanStart(p)
    /\ \E goal \in GoalArgs, handles \in HandlesArgs :
          LET r == PairsStart([NewCall("recommend") EXCEPT !.goal = goal,
                                                            !.handles_arg = handles],
                              user_handles, handles)
          IN  /\ call' = [call EXCEPT ![p] = r.call]
              /\ user_handles' = r.user_handles
    /\ ncalls' = ncalls + 1
    /\ UNCHANGED <<contestVars, statVars, renderVars>>

\* the awaited fetch_codeforces_profile of line 914 returns
recommend_problems_resume(p) ==
    /\ call[p].tool = "recommend"
    /\ call[p].pc = "await_fetch"
    /\ \E profile_data \in CodeforcesOutcomes(call[p].handle) :
          call' = [call EXCEPT ![p] = ResumePairs(call[p], profile_data)]
    /\ UNCHANGED <<user_handles, ncalls>>
    /\ UNCHANGED <<contestVars, statVars, renderVars>>

\* what the awaited fetch_upcoming_contests() of line 958 does, as the tool sees
\* it: it raises, returns an empty list, or returns entries
ContestFetchOutcomes == {"raised", "empty", "listed"}

\* lines 957-958: get_upcoming_contests up to the await
get_upcoming_contests(p) ==
    /\ CanStart(p)
    /\ call' = [call EXCEPT ![p] = [NewCall("contests") EXCEPT !.pc = "await_fetch"]]
    /\ ncalls' = ncalls + 1
    /\ UNCHANGED user_handles
    /\ UNCHANGED <<contestVars, statVars, renderVars>>

\* lines 960-1033: the rest of get_upcoming_contests
get_upcoming_contests_resume(p) ==
    /\ call[p].tool = "contests"
    /\ call[p].pc = "await_fetch"
    /\ \E outcome \in ContestFetchOutcomes :
          call' = [call EXCEPT ![p] =
                      Return(call[p],
                             Response(CASE outcome = "raised" -> "McpError"
                                        [] outcome = "empty" -> "NoContests"
                                        [] OTHER -> "Contests"))]
    /\ UNCHANGED <<user_handles, ncalls>>
    /\ UNCHANGED <<contestVars, statVars, renderVars>>

(***************************************************************************)
(* Spec: the tools and the registry                                        *)
(***************************************************************************)
ToolsInit ==
    /\ user_handles = EmptyDict
    /\ call = [p \in Slots |-> IdleCall]
    /\ ncalls = 0

\* the variables of the other specifications at rest
ContestsParked ==
    /\ cpc = "off"
    /\ clock = 0
    /\ cf_payload = <<>>
    /\ at_payload = <<>>
    /\ contests = <<>>
    /\ at_time = 0
    /\ final_time = 0
    /\ cresult = [raised |-> FALSE, list |-> <<>>]

StatsParked ==
    /\ spc = "off"
    /\ user_reply = <<>>
    /\ subs_reply = <<>>
    /\ si = 1
    /\ solved_problems = {}
    /\ problem_difficulties = <<>>
    /\ problem_tags = <<>>
    /\ recent_activity = <<>>
    /\ submission_patterns = <<>>
    /\ sresult = <<>>

RenderParked ==
    /\ rpc = "off"
    /\ rprofiles = <<>>
    /\ rgoal = <<>>
    /\ rresult = [raised |-> FALSE, text |-> <<>>]

Init == ToolsInit /\ ContestsParked /\ StatsParked /\ RenderParked

Next ==
    \E p \in Slots :
        \/ validate(p)
        \/ add_coding_profile(p)
        \/ add_coding_profile_resume(p)
        \/ roast_my_coding(p)
        \/ roast_my_coding_resume(p)
        \/ recommend_problems(p)
        \/ recommend_problems_resume(p)
        \/ get_upcoming_contests(p)
        \/ get_upcoming_contests_resume(p)

Spec == Init /\ [][Next]_vars

(***************************************************************************)
(* Properties of the registry                                              *)
(***************************************************************************)
NoDuplicates(list) == \A i, j \in 1..Len(list) : list[i] = list[j] => i = j

\* the "platform:handle" string of an add_coding_profile invocation
HandleString(c) == c.platform \o <<":">> \o c.handle

Verified(c) == c.tool = "add" /\ c.pc = "done" /\ c.response.kind = "Verified"

\* slot p takes a step
Steps(p) == call'[p] # call[p]

\* slot p starts an invocation in this step
Starts(p) == Steps(p) /\ call[p].pc \in {"idle", "done"}

\* C1: when two add_coding_profile invocations with different "platform:handle"
\* strings have both returned successfully, both strings are in the registry,
\* however their steps were interleaved.
C1_NoLostUpdate ==
    \A p, q \in Slots :
        (/\ p # q
         /\ Verified(call[p])
         /\ Verified(call[q])
         /\ HandleString(call[p]) # HandleString(call[q]))
        => {HandleString(call[p]), HandleString(call[q])} \subseteq Range(Registry(user_handles))

\* two invocations that were suspended at their fetches together have both returned
C1_Witness ==
    \E p, q \in Slots :
        /\ p # q
        /\ Verified(call[p])
        /\ Verified(call[q])
        /\ call[p].overlapped
        /\ HandleString(call[p]) # HandleString(call[q])

\* C2: the registry never holds a string twice, and it changes only by a new
\* string being appended at its end by an add_coding_profile invocation that
\* returns successfully with that string: the entries stay in the order of
\* their first insertion.
C2_OrderedSet ==
    /\ [](NoDuplicates(Registry(user_handles)))
    /\ [][\/ Registry(user_handles') = Registry(user_handles)
          \/ \E p \in Slots :
                /\ Steps(p)
                /\ Verified(call'[p])
                /\ HandleString(call'[p]) \notin Range(Registry(user_handles))
                /\ Registry(user_handles') =
                       Append(Registry(user_handles), HandleString(call'[p]))]_vars

\* an invocation re-added the first of two stored strings
C2_Witness ==
    \E p \in Slots :
        /\ Verified(call[p])
        /\ Len(Registry(user_handles)) = 2
        /\ call[p].response.stored = Registry(user_handles)
        /\ HandleString(call[p]) = Registry(user_handles)[1]
        /\ \E q \in Slots \ {p} :
              Verified(call[q]) /\ HandleString(call[q]) = Registry(user_handles)[2]

\* C3: every step of validate, roast_my_coding, recommend_problems and
\* get_upcoming_contests leaves user_handles as it was.
C3_OnlyAddMutates ==
    [][\A p \in Slots :
          (Steps(p) /\ call'[p].tool \in {"validate", "roast", "recommend", "contests"})
          => user_handles' = user_handles]_vars

\* roast_my_coding and recommend_problems have both read a non-empty registry
C3_Witness ==
    /\ Registry(user_handles) # <<>>
    /\ \E p, q \in Slots :
          /\ call[p].tool = "roast" /\ call[p].pc = "done" /\ call[p].usedRegistry
          /\ call[q].tool = "recommend" /\ call[q].pc = "done" /\ call[q].usedRegistry

\* C4: add_coding_profile with an empty handle returns the handle-required
\* message at once, whatever the platform: no fetcher is called and user_handles
\* is unchanged.
C4_EmptyHandle ==
    [][\A p \in Slots :
          (Starts(p) /\ call'[p].tool = "add" /\ call'[p].handle = NoStr)
          => /\ call'[p].pc = "done"
             /\ call'[p].response.kind = "HandleRequired"
             /\ call'[p].fetches = <<>>
             /\ user_handles' = user_handles]_vars

\* an empty handle was rejected for an unsupported platform, with handles stored
C4_Witness ==
    \E p \in Slots :
        /\ call[p].tool = "add"
        /\ call[p].pc = "done"
        /\ call[p].handle = NoStr
        /\ Lower(call[p].platform) \notin {CODEFORCES, LEETCODE, CODECHEF}
        /\ call[p].response.kind = "HandleRequired"
        /\ Registry(user_handles) # <<>>

(***************************************************************************)
(* fetch_upcoming_contests                                                 *)
(*                                                                         *)
(* Time is counted in half seconds from Monday 2024-01-01 00:00 local      *)
(* time, so that datetime.now().timestamp() can fall between two whole     *)
(* seconds and int() truncates. start_time values are kept in the same     *)
(* unit. An entry whose start_time is not a number (a JSON null or string) *)
(* has numeric = FALSE.                                                    *)
(***************************************************************************)
TOP == 15

Day == 24 * 3600
WINDOW == 2 * (30 * 24 * 3600)      \* 30*24*3600 seconds, in half seconds

Ticks(seconds) == 2 * seconds
\* int(x.timestamp()), as whole seconds
IntSeconds(t) == t \div 2
\* datetime.weekday(): Monday is 0
Weekday(t) == (IntSeconds(t) \div Day) % 7
\* the midnight that starts the day of t, in seconds
DayStart(t) == (IntSeconds(t) \div Day) * Day
\* first days of January to April 2024, as days from the origin
MonthStartDays == <<0, 31, 60, 91>>
\* (now.replace(day=1) + timedelta(days=32)).replace(day=1) - now, in days
DaysToNextMonth(t) ==
    LET today == IntSeconds(t) \div Day
        later == {d \in Range(MonthStartDays) : d > today}
    IN  (CHOOSE d \in later : \A e \in later : d <= e) - today

\* one dict of the list contests; name is the entry's position in its source
Entry(platform, name, start_time, numeric) ==
    [platform |-> platform, name |-> name, start_time |-> start_time, numeric |-> numeric]

\* lines 234-244: the entries appended before the reply is exhausted or an
\* entry raises KeyError
RECURSIVE CfAppended(_, _)
CfAppended(result, i) ==
    IF i > Len(result) THEN <<>>
    ELSE LET contest == result[i]
         IN  IF contest.phase = "BEFORE"
             THEN IF ~contest.complete THEN <<>>
                  ELSE <<Entry("Codeforces", i, contest.start, contest.numeric)>>
                          \o CfAppended(result, i + 1)
             ELSE CfAppended(result, i + 1)

\* the loop of lines 235-244 raises KeyError at some entry
RECURSIVE CfRaises(_, _)
CfRaises(result, i) ==
    IF i > Len(result) THEN FALSE
    ELSE LET contest == result[i]
         IN  \/ contest.phase = "BEFORE" /\ ~contest.complete
             \/ CfRaises(result, i + 1)

\* lines 230-246: what the Codeforces block adds to contests
CfContribution(payload) ==
    IF payload.failed \/ payload.status # "OK" THEN <<>>
    ELSE CfAppended(payload.result, 1)

\* the Codeforces block ended in its except clause
CfFailed(payload) == payload.failed \/ (payload.status = "OK" /\ CfRaises(payload.result, 1))

\* lines 254-264: the entries appended before the reply is exhausted or an
\* entry raises (KeyError, or TypeError on the comparison with current_time)
RECURSIVE AtAppended(_, _, _)
AtAppended(data, i, current_time) ==
    IF i > Len(data) THEN <<>>
    ELSE LET contest == data[i]
         IN  IF ~contest.has_start \/ ~contest.numeric THEN <<>>
             ELSE IF contest.start > current_time
             THEN IF ~contest.complete THEN <<>>
                  ELSE <<Entry("AtCoder", i, contest.start, TRUE)>>
                          \o AtAppended(data, i + 1, current_time)
             ELSE AtAppended(data, i + 1, current_time)

\* the loop of lines 254-264 raises at some entry
RECURSIVE AtRaises(_, _, _)
AtRaises(data, i, current_time) ==
    IF i > Len(data) THEN FALSE
    ELSE LET contest == data[i]
         IN  \/ ~contest.has_start
             \/ ~contest.numeric
             \/ contest.start > current_time /\ ~contest.complete
             \/ AtRaises(data, i + 1, current_time)

\* lines 249-266: what the AtCoder block adds to contests
AtContribution(payload, current_time) ==
    IF payload.failed THEN <<>> ELSE AtAppended(payload.result, 1, current_time)

AtFailed(payload, current_time) ==
    payload.failed \/ AtRaises(payload.result, 1, current_time)

\* lines 272-290
CodeChefEntries(now) ==
    <<Entry("CodeChef", 1,
            Ticks(IntSeconds(now) + ((2 - Weekday(now)) % 7) * Day), TRUE),
      Entry("CodeChef", 2,
            Ticks(IntSeconds(now) + DaysToNextMonth(now) * Day), TRUE)>>

\* lines 297-318
LeetCodeEntries(now) ==
    <<Entry("LeetCode", 1,
            Ticks(DayStart(now) + ((6 - Weekday(now)) % 7) * Day + 8 * 3600), TRUE),
      Entry("LeetCode", 2,
            Ticks(DayStart(now) + ((5 - Weekday(now)) % 7) * Day + 20 * 3600 + 30 * 60),
            TRUE)>>

\* list.sort(key=start_time) is stable: insert x after the entries not greater
RECURSIVE InsertSorted(_, _)
InsertSorted(sorted, x) ==
    IF sorted = <<>> THEN <<x>>
    ELSE IF Head(sorted).start_time <= x.start_time
    THEN <<Head(sorted)>> \o InsertSorted(Tail(sorted), x)
    ELSE <<x>> \o sorted

\* line 326
RECURSIVE SortByStart(_)
SortByStart(list) ==
    IF list = <<>> THEN <<>>
    ELSE InsertSorted(SortByStart(SubSeq(list, 1, Len(list) - 1)), list[Len(list)])

\* line 326 raises TypeError when a start_time that is not a number is compared
SortRaises(list) == Len(list) >= 2 /\ \E i \in 1..Len(list) : ~list[i].numeric

\* line 330
Upcoming(sorted, current_time) ==
    SelectSeq(sorted, LAMBDA c : /\ c.start_time > current_time
                                 /\ c.start_time < current_time + WINDOW)

\* a defect: the slice of line 332 is missing
FirstTopAll(list) == list

\* a defect: the slice of line 332 keeps the end of the list
LastTop(list) == SubSeq(list, IF Len(list) < TOP THEN 1 ELSE Len(list) - TOP + 1, Len(list))

\* line 332
FirstTop(list) == SubSeq(list, 1, IF Len(list) < TOP THEN Len(list) ELSE TOP)

(***************************************************************************)
(* The replies of the two contest feeds                                    *)
(***************************************************************************)
MaxCfEntries == 2
MaxAtEntries == 1
LongLen == 14

SeqsUpTo(S, n) == UNION {[1..k -> S] : k \in 0..n}

\* entries of contest.list, with start times around second `base`
CfEntryKinds(base) ==
    {[phase |-> "BEFORE", complete |-> TRUE, start |-> Ticks(base + 1), numeric |-> TRUE],
     [phase |-> "BEFORE", complete |-> TRUE, start |-> Ticks(base) + WINDOW, numeric |-> TRUE],
     [phase |-> "FINISHED", complete |-> TRUE, start |-> Ticks(base - 1), numeric |-> TRUE],
     [phase |-> "BEFORE", complete |-> FALSE, start |-> 0, numeric |-> TRUE],
     [phase |-> "BEFORE", complete |-> TRUE, start |-> 0, numeric |-> FALSE]}

\* a long reply, latest contest first
LongCfResult(base) ==
    [i \in 1..LongLen |->
        [phase |-> "BEFORE", complete |-> TRUE,
         start |-> Ticks(base + 60 * ((LongLen - i) \div 2 + 1)), numeric |-> TRUE]]

CfPayloads(base) ==
    {[failed |-> TRUE, status |-> "none", result |-> <<>>],
     [failed |-> FALSE, status |-> "FAILED", result |-> <<>>]}
    \cup {[failed |-> FALSE, status |-> "OK", result |-> r] :
             r \in SeqsUpTo(CfEntryKinds(base), MaxCfEntries) \cup {LongCfResult(base)}}

\* entries of contests.json
AtEntryKinds(base) ==
    {[has_start |-> TRUE, numeric |-> TRUE, start |-> Ticks(base - 1), complete |-> TRUE],
     [has_start |-> TRUE, numeric |-> TRUE, start |-> Ticks(base + 1), complete |-> TRUE],
     [has_start |-> TRUE, numeric |-> TRUE, start |-> Ticks(base + 1), complete |-> FALSE],
     [has_start |-> FALSE, numeric |-> TRUE, start |-> 0, complete |-> TRUE]}

AtPayloads(base) ==
    {[failed |-> TRUE, result |-> <<>>]}
    \cup {[failed |-> FALSE, result |-> r] : r \in SeqsUpTo(AtEntryKinds(base), MaxAtEntries)}

\* the moment of the call: a day of January or February 2024, an hour, a half
At(day, hour, minute, second, half) ==
    Ticks(day * Day + hour * 3600 + minute * 60 + second) + half

InitClocks ==
    {At(2, 10, 0, 0, 1),        \* a Wednesday: the weekly CodeChef entry is "now"
     At(6, 7, 59, 59, 1),       \* a Sunday, half a second before 08:00
     At(5, 21, 0, 0, 0),        \* a Saturday after 20:30
     At(1, 9, 0, 0, 0),         \* 30 days before the first of February
     At(0, 12, 0, 0, 1),        \* 31 days before the first of February
     At(31, 23, 59, 59, 0)}     \* the first of February

\* the time that passes before the clock is read again, in half seconds
Advance == {0, 1, 2}

NoResult == [raised |-> FALSE, list |-> <<>>]

(***************************************************************************)
(* SpecContests: one run of fetch_upcoming_contests                        *)
(***************************************************************************)
ContestsInit ==
    /\ cpc = "start"
    /\ clock \in InitClocks
    /\ cf_payload \in CfPayloads(IntSeconds(clock))
    /\ at_payload \in AtPayloads(IntSeconds(clock))
    /\ contests = <<>>
    /\ at_time = 0
    /\ final_time = 0
    /\ cresult = NoResult

\* line 228: the client opens
OpenClient ==
    /\ cpc = "start"
    /\ cpc' = "cf"
    /\ UNCHANGED <<clock, cf_payload, at_payload, contests, at_time, final_time, cresult>>
    /\ UNCHANGED <<toolVars, statVars, renderVars>>

\* lines 227-228 and 322-323: the client cannot be made; nothing is appended
ClientFails ==
    /\ cpc = "start"
    /\ cpc' = "sort"
    /\ UNCHANGED <<clock, cf_payload, at_payload, contests, at_time, final_time, cresult>>
    /\ UNCHANGED <<toolVars, statVars, renderVars>>

\* lines 230-246
FetchCodeforces ==
    /\ cpc = "cf"
    /\ contests' = contests \o CfContribution(cf_payload)
    /\ cpc' = "atcoder"
    /\ UNCHANGED <<clock, cf_payload, at_payload, at_time, final_time, cresult>>
    /\ UNCHANGED <<toolVars, statVars, renderVars>>

\* lines 249-266
FetchAtCoder ==
    /\ cpc = "atcoder"
    /\ \E d \in Advance : clock' = clock + d
    /\ at_time' = clock'
    /\ contests' = contests \o AtContribution(at_payload, clock')
    /\ cpc' = "codechef"
    /\ UNCHANGED <<cf_payload, at_payload, final_time, cresult>>
    /\ UNCHANGED <<toolVars, statVars, renderVars>>

\* lines 270-292
AddCodeChef ==
    /\ cpc = "codechef"
    /\ \E d \in Advance : clock' = clock + d
    /\ contests' = contests \o CodeChefEntries(clock')
    /\ cpc' = "leetcode"
    /\ UNCHANGED <<cf_payload, at_payload, at_time, final_time, cresult>>
    /\ UNCHANGED <<toolVars, statVars, renderVars>>

\* lines 295-320
AddLeetCode ==
    /\ cpc = "leetcode"
    /\ \E d \in Advance : clock' = clock + d
    /\ contests' = contests \o LeetCodeEntries(clock')
    /\ cpc' = "sort"
    /\ UNCHANGED <<cf_payload, at_payload, at_time, final_time, cresult>>
    /\ UNCHANGED <<toolVars, statVars, renderVars>>

\* lines 325-332
SortFilterTruncate ==
    /\ cpc = "sort"
    /\ \E d \in Advance : clock' = clock + d
    /\ final_time' = clock'
    /\ IF SortRaises(contests)
       THEN /\ contests' = contests
            /\ cresult' = [raised |-> TRUE, list |-> <<>>]
       ELSE /\ contests' = SortByStart(contests)
            /\ cresult' = [raised |-> FALSE,
                           list |-> FirstTop(Upcoming(contests', final_time'))]
    /\ cpc' = "done"
    /\ UNCHANGED <<cf_payload, at_payload, at_time>>
    /\ UNCHANGED <<toolVars, statVars, renderVars>>

InitContests == ContestsInit /\ ToolsInit /\ StatsParked /\ RenderParked

NextContests ==
    \/ OpenClient
    \/ ClientFails
    \/ FetchCodeforces
    \/ FetchAtCoder
    \/ AddCodeChef
    \/ AddLeetCode
    \/ SortFilterTruncate

SpecContests == InitContests /\ [][NextContests]_vars

(***************************************************************************)
(* Properties of fetch_upcoming_contests                                   *)
(***************************************************************************)
Returned == cpc = "done" /\ ~cresult.raised

FromPlatform(list, platform) == SelectSeq(list, LAMBDA c : c.platform = platform)

\* C5: the returned list has at most 15 entries, is in ascending order of
\* start_time, and every start_time lies strictly between the current time of
\* line 329 and that time plus 30 days.
C5_Window ==
    Returned =>
        LET list == cresult.list
        IN  /\ Len(list) <= TOP
            /\ \A i \in 1..(Len(list) - 1) : list[i].start_time <= list[i + 1].start_time
            /\ \A i \in 1..Len(list) :
                  /\ list[i].start_time > final_time
                  /\ list[i].start_time < final_time + WINDOW

\* more than 15 entries of three sources were in the window, 15 were returned
C5_Witness ==
    /\ Returned
    /\ Len(cresult.list) = TOP
    /\ Len(Upcoming(contests, final_time)) > TOP
    /\ Len(Upcoming(contests, final_time)) < Len(contests)
    /\ FromPlatform(cresult.list, "Codeforces") # <<>>
    /\ FromPlatform(cresult.list, "AtCoder") # <<>>
    /\ FromPlatform(Upcoming(contests, final_time), "LeetCode") # <<>>

\* C6: when the call has ended it has not raised, a source whose block ended in
\* its except clause has no entry in the merged list, and the entries of the
\* other sources are in it.
C6_FailedSourceAddsNothing ==
    cpc = "done" =>
        /\ ~cresult.raised
        /\ CfFailed(cf_payload) => FromPlatform(contests, "Codeforces") = <<>>
        /\ AtFailed(at_payload, at_time) => FromPlatform(contests, "AtCoder") = <<>>
        /\ contests # <<>> =>
              /\ Len(FromPlatform(contests, "CodeChef")) = 2
              /\ Len(FromPlatform(contests, "LeetCode")) = 2
              /\ CfFailed(cf_payload) =>
                    Len(FromPlatform(contests, "AtCoder"))
                        = Len(AtContribution(at_payload, at_time))
              /\ AtFailed(at_payload, at_time) =>
                    Len(FromPlatform(contests, "Codeforces"))
                        = Len(CfContribution(cf_payload))

(***************************************************************************)
(* fetch_codeforces_profile: the submission pass and the statistics        *)
(***************************************************************************)
OK == <<"O","K">>
WRONG_ANSWER == <<"W","R","O","N","G","_","A","N","S","W","E","R">>
TIME_LIMIT == <<"T","I","M","E","_","L","I","M","I","T">>
RUNTIME_ERROR == <<"R","U","N","T","I","M","E","_","E","R","R","O","R">>
COMPILATION_ERROR == <<"C","O","M","P","I","L","A","T","I","O","N","_","E","R","R","O","R">>
TIME_LIMIT_EXCEEDED == TIME_LIMIT \o <<"_","E","X","C","E","E","D","E","D">>

\* `pat in s`
IsSubstring(pat, s) ==
    \E i \in 1..(Len(s) - Len(pat) + 1) : SubSeq(s, i, i + Len(pat) - 1) = pat

DecimalDigits == <<"0","1","2","3","4","5","6","7","8","9">>

\* str(n) for n >= 0, as the f-string of line 151 formats contestId
RECURSIVE IntToStr(_)
IntToStr(n) ==
    IF n < 10 THEN <<DecimalDigits[n + 1]>>
    ELSE IntToStr(n \div 10) \o <<DecimalDigits[(n % 10) + 1]>>

\* line 151: f"{contestId}{index}"
ProblemKey(problem) == IntToStr(problem.contestId) \o problem.index

\* round(num / den) for num >= 0, den > 0: to the nearest, a half to the even
RoundHalfEven(num, den) ==
    LET q == num \div den
        r == num % den
    IN  IF 2 * r < den THEN q
        ELSE IF 2 * r > den THEN q + 1
        ELSE IF q % 2 = 0 THEN q ELSE q + 1

RECURSIVE Sum(_)
Sum(list) == IF list = <<>> THEN 0 ELSE Head(list) + Sum(Tail(list))

NoPatterns ==
    [total_submissions |-> 0, accepted |-> 0, wrong_answer |-> 0, time_limit |-> 0,
     runtime_error |-> 0, compilation_error |-> 0]

\* a defect: a verdict that matches nothing is counted as a wrong answer
PatternsAfterElseWrong(patterns, verdict) ==
    LET counted == [patterns EXCEPT !.total_submissions = @ + 1]
    IN  IF verdict = OK THEN [counted EXCEPT !.accepted = @ + 1]
        ELSE IF IsSubstring(TIME_LIMIT, verdict) THEN [counted EXCEPT !.time_limit = @ + 1]
        ELSE IF IsSubstring(RUNTIME_ERROR, verdict) THEN [counted EXCEPT !.runtime_error = @ + 1]
        ELSE IF IsSubstring(COMPILATION_ERROR, verdict)
        THEN [counted EXCEPT !.compilation_error = @ + 1]
        ELSE [counted EXCEPT !.wrong_answer = @ + 1]

\* lines 145-173: the counters after one submission
PatternsAfter(patterns, verdict) ==
    LET counted == [patterns EXCEPT !.total_submissions = @ + 1]
    IN  IF verdict = OK THEN [counted EXCEPT !.accepted = @ + 1]
        ELSE IF IsSubstring(WRONG_ANSWER, verdict) THEN [counted EXCEPT !.wrong_answer = @ + 1]
        ELSE IF IsSubstring(TIME_LIMIT, verdict) THEN [counted EXCEPT !.time_limit = @ + 1]
        ELSE IF IsSubstring(RUNTIME_ERROR, verdict) THEN [counted EXCEPT !.runtime_error = @ + 1]
        ELSE IF IsSubstring(COMPILATION_ERROR, verdict)
        THEN [counted EXCEPT !.compilation_error = @ + 1]
        ELSE counted

\* line 151 raises KeyError: an accepted submission without contestId or index
KeyRaises(submission) == submission.verdict = OK /\ ~submission.problem.keyed

\* a defect: the key is stored for every verdict
SolvedAfterAnyVerdict(solved, submission) ==
    IF submission.problem.keyed THEN solved \cup {ProblemKey(submission.problem)} ELSE solved

\* lines 149-152
SolvedAfter(solved, submission) ==
    IF submission.verdict = OK THEN solved \cup {ProblemKey(submission.problem)} ELSE solved

\* a defect: the rating is collected for every verdict
DifficultiesAfterAnyVerdict(difficulties, submission) ==
    IF submission.problem.has_rating
    THEN Append(difficulties, submission.problem.rating)
    ELSE difficulties

\* lines 149, 155-157
DifficultiesAfter(difficulties, submission) ==
    IF submission.verdict = OK /\ submission.problem.has_rating
    THEN Append(difficulties, submission.problem.rating)
    ELSE difficulties

\* lines 149, 158-159
TagsAfter(tags, submission) ==
    IF submission.verdict = OK /\ submission.problem.has_tags
    THEN tags \o submission.problem.tags
    ELSE tags

\* lines 149, 162-164; times are in half seconds
RecentAfter(recent, submission, now) ==
    IF submission.verdict = OK /\ submission.creationTimeSeconds > now - WINDOW
    THEN Append(recent, submission.creationTimeSeconds)
    ELSE recent

\* line 176 and line 192: round(sum / len), or 0 for an empty list
AvgDifficulty(difficulties) ==
    IF difficulties = <<>> THEN 0
    ELSE RoundHalfEven(Sum(difficulties), Len(difficulties))

\* a defect: the rate is rounded to a whole percent
AccuracyWholePercent(patterns) ==
    10 * RoundHalfEven(100 * patterns.accepted,
                       IF patterns.total_submissions > 1 THEN patterns.total_submissions ELSE 1)

\* line 196, in tenths of a percent: round(accepted / max(total, 1) * 100, 1).
\* The float quotient can fall on either side of an exact half of a tenth; an
\* exact half needs a total that is a multiple of 16.
AccuracyRate(patterns) ==
    RoundHalfEven(1000 * patterns.accepted,
                  IF patterns.total_submissions > 1 THEN patterns.total_submissions ELSE 1)

TOPTAGS == 5

\* lines 177-179: the tags in the order of their first occurrence, with counts
RECURSIVE TagCounts(_)
TagCounts(tags) ==
    IF tags = <<>> THEN <<>>
    ELSE LET first == Head(tags)
         IN  <<<<first, Len(SelectSeq(tags, LAMBDA t : t = first))>>>>
                \o TagCounts(SelectSeq(tags, LAMBDA t : t # first))

\* a defect: the sort is not stable, equal counts come out in reverse order
RECURSIVE InsertByCountUnstable(_, _)
InsertByCountUnstable(sorted, x) ==
    IF sorted = <<>> THEN <<x>>
    ELSE IF Head(sorted)[2] > x[2]
    THEN <<Head(sorted)>> \o InsertByCountUnstable(Tail(sorted), x)
    ELSE <<x>> \o sorted

\* sorted(..., key=count, reverse=True) is stable: equal counts keep their order
RECURSIVE InsertByCount(_, _)
InsertByCount(sorted, x) ==
    IF sorted = <<>> THEN <<x>>
    ELSE IF Head(sorted)[2] >= x[2]
    THEN <<Head(sorted)>> \o InsertByCount(Tail(sorted), x)
    ELSE <<x>> \o sorted

RECURSIVE SortByCount(_)
SortByCount(items) ==
    IF items = <<>> THEN <<>>
    ELSE InsertByCount(SortByCount(SubSeq(items, 1, Len(items) - 1)), items[Len(items)])

\* line 182
TopTags(tags) ==
    LET sorted == SortByCount(TagCounts(tags))
    IN  SubSeq(sorted, 1, IF Len(sorted) < TOPTAGS THEN Len(sorted) ELSE TOPTAGS)

\* lines 121 and 199: {"error": ...}; message is the value of the error key,
\* raised tells that the call ended by an exception instead of a return
StatsError ==
    [error |-> TRUE, raised |-> FALSE, message |-> "none",
     rating |-> 0, maxRating |-> 0, problemsSolved |-> 0, avgDifficulty |-> 0,
     topTags |-> <<>>, submissionPatterns |-> NoPatterns, recentActivity |-> 0,
     accuracyRate |-> 0]

\* line 121
NotFoundMarker == [StatsError EXCEPT !.message = "User not found"]

\* a defect: the exception leaves the function
ExceptReraise(exception) == [StatsError EXCEPT !.raised = TRUE, !.message = exception]

\* lines 198-199: any exception of the body becomes {"error": str(e)}; the
\* text of the exception is stood for by the name of its class
ExceptMarker(exception) == [StatsError EXCEPT !.message = exception]

(***************************************************************************)
(* The replies of user.info and user.status                                *)
(***************************************************************************)
MaxSubs == 4

Problem(keyed, contestId, index, has_rating, rating, tags) ==
    [keyed |-> keyed, contestId |-> contestId, index |-> index,
     has_rating |-> has_rating, rating |-> rating,
     has_tags |-> tags # <<>>, tags |-> tags]

Submission(verdict, problem, time) ==
    [verdict |-> verdict, problem |-> problem, creationTimeSeconds |-> time]

\* the moment of the fetch
StatsNow == At(40, 12, 0, 0, 1)

RecentTime == StatsNow - Ticks(Day)
OldTime == Ticks(IntSeconds(StatsNow)) - WINDOW

\* submissions as user.status returns them; a verdict can be absent (""), a
\* problem can lack its contestId or its rating
SubmissionKinds ==
    {Submission(OK, Problem(TRUE, 1, <<"A">>, TRUE, 800, <<"dp">>), RecentTime),
     Submission(OK, Problem(TRUE, 1, <<"1","A">>, TRUE, 800, <<"dp", "math", "greedy">>),
                OldTime),
     Submission(OK, Problem(TRUE, 11, <<"A">>, TRUE, 1500,
                            <<"math", "graphs", "trees", "strings">>), RecentTime),
     Submission(OK, Problem(TRUE, 11, <<"B">>, FALSE, 0, <<>>), OldTime),
     Submission(OK, Problem(FALSE, 0, <<"A">>, TRUE, 800, <<"dp">>), RecentTime),
     Submission(WRONG_ANSWER, Problem(TRUE, 11, <<"B">>, TRUE, 1500, <<"greedy">>), RecentTime),
     Submission(TIME_LIMIT_EXCEEDED, Problem(TRUE, 1, <<"A">>, TRUE, 800, <<"dp">>), OldTime),
     Submission(RUNTIME_ERROR, Problem(TRUE, 11, <<"A">>, TRUE, 1500, <<"math">>), RecentTime),
     Submission(COMPILATION_ERROR, Problem(TRUE, 11, <<"B">>, FALSE, 0, <<>>), OldTime),
     Submission(NoStr, Problem(FALSE, 0, <<"A">>, FALSE, 0, <<>>), RecentTime)}

\* a request fails in transport (client.get raises) or its body is not JSON
\* (.json() raises); otherwise the reply carries a status
RequestFailures == {"ConnectError", "JSONDecodeError"}

UserReplies ==
    {[failed |-> TRUE, raises |-> e, status |-> "none", rating |-> 0, maxRating |-> 0] :
        e \in RequestFailures}
    \cup {[failed |-> FALSE, raises |-> "none", status |-> "FAILED", rating |-> 0, maxRating |-> 0],
          [failed |-> FALSE, raises |-> "none", status |-> "OK", rating |-> 1200, maxRating |-> 1500]}

SubsReplies ==
    {[failed |-> TRUE, raises |-> e, status |-> "none", result |-> <<>>] : e \in RequestFailures}
    \cup {[failed |-> FALSE, raises |-> "none", status |-> "FAILED", result |-> <<>>]}
    \cup {[failed |-> FALSE, raises |-> "none", status |-> "OK", result |-> r] :
             r \in SeqsUpTo(SubmissionKinds, MaxSubs)}

(***************************************************************************)
(* SpecStats: one run of fetch_codeforces_profile                          *)
(***************************************************************************)
ContestsParkedAt(now) ==
    /\ cpc = "off"
    /\ clock = now
    /\ cf_payload = <<>>
    /\ at_payload = <<>>
    /\ contests = <<>>
    /\ at_time = 0
    /\ final_time = 0
    /\ cresult = NoResult

StatsInit ==
    /\ spc = "user"
    /\ user_reply \in UserReplies
    /\ subs_reply \in SubsReplies
    /\ si = 1
    /\ solved_problems = {}
    /\ problem_difficulties = <<>>
    /\ problem_tags = <<>>
    /\ recent_activity = <<>>
    /\ submission_patterns = NoPatterns
    /\ sresult = StatsError

statLocals == <<si, solved_problems, problem_difficulties, problem_tags, recent_activity,
                submission_patterns>>

\* lines 117-123: the user.info request
GetUserInfo ==
    /\ spc = "user"
    /\ IF user_reply.failed
       THEN spc' = "done" /\ sresult' = ExceptMarker(user_reply.raises)
       ELSE IF user_reply.status # "OK"
       THEN spc' = "done" /\ sresult' = NotFoundMarker
       ELSE spc' = "subs" /\ UNCHANGED sresult
    /\ UNCHANGED <<user_reply, subs_reply, statLocals>>
    /\ UNCHANGED <<toolVars, contestVars, renderVars>>

\* lines 126-143: the user.status request
GetSubmissions ==
    /\ spc = "subs"
    /\ IF subs_reply.failed
       THEN spc' = "done" /\ sresult' = ExceptMarker(subs_reply.raises)
       ELSE /\ spc' = IF subs_reply.status = "OK" THEN "loop" ELSE "stats"
            /\ UNCHANGED sresult
    /\ UNCHANGED <<user_reply, subs_reply, statLocals>>
    /\ UNCHANGED <<toolVars, contestVars, renderVars>>

\* lines 144-173: one turn of the loop over the submissions
ProcessSubmission ==
    /\ spc = "loop"
    /\ si <= Len(subs_reply.result)
    /\ LET submission == subs_reply.result[si]
       IN  IF KeyRaises(submission)
           THEN /\ spc' = "done"
                /\ sresult' = ExceptMarker("KeyError")
                /\ submission_patterns' = PatternsAfter(submission_patterns, submission.verdict)
                /\ UNCHANGED <<si, solved_problems, problem_difficulties, problem_tags,
                               recent_activity>>
           ELSE /\ submission_patterns' = PatternsAfter(submission_patterns, submission.verdict)
                /\ solved_problems' = SolvedAfter(solved_problems, submission)
                /\ problem_difficulties' = DifficultiesAfter(problem_difficulties, submission)
                /\ problem_tags' = TagsAfter(problem_tags, submission)
                /\ recent_activity' = RecentAfter(recent_activity, submission, clock)
                /\ si' = si + 1
                /\ UNCHANGED <<spc, sresult>>
    /\ UNCHANGED <<user_reply, subs_reply>>
    /\ UNCHANGED <<toolVars, contestVars, renderVars>>

\* line 144: the loop is exhausted
EndLoop ==
    /\ spc = "loop"
    /\ si > Len(subs_reply.result)
    /\ spc' = "stats"
    /\ UNCHANGED <<user_reply, subs_reply, statLocals, sresult>>
    /\ UNCHANGED <<toolVars, contestVars, renderVars>>

\* lines 175-197
CalculateStatistics ==
    /\ spc = "stats"
    /\ sresult' = [error |-> FALSE,
                   raised |-> FALSE,
                   message |-> "none",
                   rating |-> user_reply.rating,
                   maxRating |-> user_reply.maxRating,
                   problemsSolved |-> Cardinality(solved_problems),
                   avgDifficulty |-> AvgDifficulty(problem_difficulties),
                   topTags |-> TopTags(problem_tags),
                   submissionPatterns |-> submission_patterns,
                   recentActivity |-> Len(recent_activity),
                   accuracyRate |-> AccuracyRate(submission_patterns)]
    /\ spc' = "done"
    /\ UNCHANGED <<user_reply, subs_reply, statLocals>>
    /\ UNCHANGED <<toolVars, contestVars, renderVars>>

InitStats == StatsInit /\ ToolsInit /\ ContestsParkedAt(StatsNow) /\ RenderParked

NextStats ==
    \/ GetUserInfo
    \/ GetSubmissions
    \/ ProcessSubmission
    \/ EndLoop
    \/ CalculateStatistics

SpecStats == InitStats /\ [][NextStats]_vars

(***************************************************************************)
(* Properties of the statistics                                            *)
(***************************************************************************)
Fetched == spc = "done" /\ ~sresult.error

\* the accepted submissions of the user.status reply
AcceptedSubmissions == SelectSeq(subs_reply.result, LAMBDA x : x.verdict = OK)

\* the ratings of the accepted submissions that carry one, one per submission
AcceptedRatings ==
    LET rated == SelectSeq(AcceptedSubmissions, LAMBDA x : x.problem.has_rating)
    IN  [i \in 1..Len(rated) |-> rated[i].problem.rating]

Abs(x) == IF x < 0 THEN -x ELSE x

\* C7: the number of solved problems never exceeds the number of accepted
\* submissions, during the pass and in the returned record.
C7_SolvedAtMostAccepted ==
    /\ spc \in {"loop", "stats"}
          => Cardinality(solved_problems) <= submission_patterns.accepted
    /\ Fetched => sresult.problemsSolved <= sresult.submissionPatterns.accepted

\* a problem was accepted twice and another one once
C7_Witness ==
    /\ Fetched
    /\ sresult.submissionPatterns.accepted = 3
    /\ sresult.problemsSolved = 2
    /\ sresult.submissionPatterns.total_submissions = 4

\* C8: problemsSolved is the number of distinct (contestId, index) pairs among
\* the accepted submissions.
C8_DistinctPairs ==
    Fetched =>
        sresult.problemsSolved =
            Cardinality({<<AcceptedSubmissions[i].problem.contestId,
                           AcceptedSubmissions[i].problem.index>> :
                            i \in 1..Len(AcceptedSubmissions)})

\* C9: accuracyRate, in tenths of a percent, lies in 0..1000, is a nearest tenth
\* to 100 * accepted / total when there are submissions, and is 0 when there
\* are none.
C9_Accuracy ==
    Fetched =>
        LET accepted == Len(AcceptedSubmissions)
            total == Len(subs_reply.result)
            rate == sresult.accuracyRate
        IN  /\ rate >= 0
            /\ rate <= 1000
            /\ total > 0 => 2 * Abs(rate * total - 1000 * accepted) <= total
            /\ total = 0 => rate = 0

\* one submission of three was accepted: 33.3
C9_Witness ==
    /\ Fetched
    /\ Len(subs_reply.result) = 3
    /\ Len(AcceptedSubmissions) = 1
    /\ sresult.accuracyRate = 333

\* C10: avgDifficulty is 0 when no accepted submission carries a rating, and
\* otherwise an integer nearest to the mean of the ratings of the accepted
\* submissions that carry one, one term per submission.
C10_AvgDifficulty ==
    Fetched =>
        LET ratings == AcceptedRatings
            avg == sresult.avgDifficulty
        IN  IF ratings = <<>> THEN avg = 0
            ELSE 2 * Abs(avg * Len(ratings) - Sum(ratings)) <= Len(ratings)

\* the same problem accepted twice counts twice in the mean, and a rated
\* submission that was not accepted is in the list
C10_Witness ==
    /\ Fetched
    /\ Len(AcceptedRatings) = 3
    /\ sresult.problemsSolved = 2
    /\ sresult.avgDifficulty = 1033
    /\ \E i \in 1..Len(subs_reply.result) :
          /\ subs_reply.result[i].verdict # OK
          /\ subs_reply.result[i].problem.has_rating

\* the tags of the accepted submissions, in the order of the user.status reply
RECURSIVE TagsOf(_)
TagsOf(submissions) ==
    IF submissions = <<>> THEN <<>>
    ELSE Head(submissions).problem.tags \o TagsOf(Tail(submissions))

AcceptedTags == TagsOf(AcceptedSubmissions)

Occurrences(list, x) == Cardinality({i \in 1..Len(list) : list[i] = x})

FirstOccurrence(list, x) == CHOOSE i \in 1..Len(list) : list[i] = x /\ \A j \in 1..(i-1) : list[j] # x

\* C11: topTags has at most 5 entries, each a tag of an accepted submission
\* with its number of occurrences (at least 1), by count descending and, for
\* equal counts, by first occurrence among the accepted submissions; no tag
\* left out has a higher count than a tag included.
C11_TopTags ==
    Fetched =>
        LET top == sresult.topTags
            included == {top[i][1] : i \in 1..Len(top)}
        IN  /\ Len(top) <= 5
            /\ \A i \in 1..Len(top) :
                  /\ top[i][1] \in Range(AcceptedTags)
                  /\ top[i][2] = Occurrences(AcceptedTags, top[i][1])
                  /\ top[i][2] >= 1
            /\ \A i \in 1..Len(top) : \A j \in (i+1)..Len(top) :
                  \/ top[i][2] > top[j][2]
                  \/ /\ top[i][2] = top[j][2]
                     /\ FirstOccurrence(AcceptedTags, top[i][1])
                            < FirstOccurrence(AcceptedTags, top[j][1])
            /\ \A t \in Range(AcceptedTags) \ included : \A i \in 1..Len(top) :
                  Occurrences(AcceptedTags, t) <= top[i][2]

\* six tags were seen: the fifth seen has the highest count and comes first,
\* the tags with one occurrence keep the order in which they were seen, and
\* the sixth is left out
C11_Witness ==
    /\ Fetched
    /\ Cardinality(Range(AcceptedTags)) = 6
    /\ Len(sresult.topTags) = 5
    /\ sresult.topTags[1] = <<"dp", 3>>
    /\ sresult.topTags[2] = <<"math", 2>>
    /\ sresult.topTags[3] = <<"graphs", 1>>
    /\ sresult.topTags[5] = <<"strings", 1>>

\* the verdict buckets, and for those tested by substring the text looked for,
\* in the order of the tests
Buckets == <<"accepted", "wrong_answer", "time_limit", "runtime_error", "compilation_error">>

BucketText == <<OK, WRONG_ANSWER, TIME_LIMIT, RUNTIME_ERROR, COMPILATION_ERROR>>

BucketSum(patterns) ==
    patterns.accepted + patterns.wrong_answer + patterns.time_limit
        + patterns.runtime_error + patterns.compilation_error

\* the bucket a verdict belongs to: accepted for exactly "OK", otherwise the
\* first bucket whose text the verdict contains, otherwise "none"
BucketOf(verdict) ==
    IF verdict = OK THEN "accepted"
    ELSE LET hits == {i \in 2..Len(Buckets) : IsSubstring(BucketText[i], verdict)}
         IN  IF hits = {} THEN "none"
             ELSE Buckets[CHOOSE i \in hits : \A j \in hits : i <= j]

\* C12: every record of the submission pass increments total by exactly one
\* and at most one verdict bucket, the one its verdict belongs to; a record with
\* an unrecognized verdict changes total only; the buckets never sum to more
\* than total.
C12_VerdictBuckets ==
    /\ [](BucketSum(submission_patterns) <= submission_patterns.total_submissions)
    /\ [](Fetched => BucketSum(sresult.submissionPatterns)
                        <= sresult.submissionPatterns.total_submissions)
    /\ [][(spc = "loop" /\ si <= Len(subs_reply.result)) =>
            LET verdict == subs_reply.result[si].verdict
            IN  /\ submission_patterns'.total_submissions
                      = submission_patterns.total_submissions + 1
                /\ \A i \in 1..Len(Buckets) :
                      submission_patterns'[Buckets[i]]
                          = submission_patterns[Buckets[i]]
                              + (IF Buckets[i] = BucketOf(verdict) THEN 1 ELSE 0)
                /\ BucketSum(submission_patterns') <= BucketSum(submission_patterns) + 1
                /\ BucketOf(verdict) = "none"
                      => BucketSum(submission_patterns') = BucketSum(submission_patterns)]_vars

\* four records, one of them without a verdict: three buckets hold one each
C12_Witness ==
    /\ Fetched
    /\ sresult.submissionPatterns.total_submissions = 4
    /\ sresult.submissionPatterns.accepted = 1
    /\ sresult.submissionPatterns.time_limit = 1
    /\ sresult.submissionPatterns.runtime_error = 1
    /\ BucketSum(sresult.submissionPatterns) = 3
    /\ \E i \in 1..4 : BucketOf(subs_reply.result[i].verdict) = "none"

(***************************************************************************)
(* Properties of roast_my_coding and recommend_problems                    *)
(***************************************************************************)
Supported == {CODEFORCES, LEETCODE, CODECHEF}

\* an invocation of roast_my_coding or recommend_problems that has returned
\* after it had a handles list to work on
Worked(c, tool) == c.tool = tool /\ c.pc = "done" /\ c.handles # NoStr

\* the platform a pair of the handles list names, "" for a pair without colon
PairPlatform(pair) ==
    IF HasChar(pair, ":") THEN Strip(Lower(Split1(Strip(pair), ":")[1])) ELSE NoStr

\* C13: roast_my_coding returns the fixed no-valid-profiles message whenever
\* it had a handles list (explicit or stored) and no pair of it gave a profile:
\* every fetch returned an error marker, or no pair named a supported platform.
C13_NoValidProfiles ==
    \A p \in Slots :
        Worked(call[p], "roast") =>
            /\ call[p].profiles = <<>> => call[p].response = Response("NoValidProfiles")
            /\ (\A i \in 1..Len(call[p].pairs) : PairPlatform(call[p].pairs[i]) \notin Supported)
                  => /\ call[p].fetches = <<>>
                     /\ call[p].response = Response("NoValidProfiles")

\* the message was returned for a stored handle whose fetch failed, and for an
\* explicit list with an unsupported platform and a pair without colon
C13_Witness ==
    \E p, q \in Slots :
        /\ Worked(call[p], "roast")
        /\ call[p].usedRegistry
        /\ Len(call[p].fetches) = 1
        /\ call[p].response.kind = "NoValidProfiles"
        /\ Worked(call[q], "roast")
        /\ ~call[q].usedRegistry
        /\ Len(call[q].pairs) = 2
        /\ call[q].fetches = <<>>
        /\ call[q].response.kind = "NoValidProfiles"

\* profiles is what is left of the fetches, in their order, when some of the
\* Codeforces fetches (the only ones that can fail) are dropped
RECURSIVE SuccessesOf(_, _)
SuccessesOf(profiles, fetches) ==
    IF fetches = <<>> THEN profiles = <<>>
    ELSE \/ /\ profiles # <<>>
            /\ ~Head(profiles).error
            /\ Head(profiles).platform = Head(fetches)[1]
            /\ Head(profiles).handle = Head(fetches)[2]
            /\ SuccessesOf(Tail(profiles), Tail(fetches))
         \/ /\ Head(fetches)[1] = CODEFORCES
            /\ SuccessesOf(profiles, Tail(fetches))

C17_UnsupportedPlatform ==
    [][\A p \in Slots :
          (/\ Starts(p)
           /\ call'[p].tool = "add"
           /\ call'[p].handle # NoStr
           /\ Lower(call'[p].platform) \notin Supported)
          => /\ call'[p].pc = "done"
             /\ call'[p].response = Response("UnsupportedPlatform")
             /\ call'[p].fetches = <<>>
             /\ user_handles' = user_handles]_vars

\* a handle was refused for an unsupported platform, with handles stored
C17_Witness ==
    \E p \in Slots :
        /\ call[p].tool = "add"
        /\ call[p].pc = "done"
        /\ call[p].handle # NoStr
        /\ Lower(call[p].platform) \notin Supported
        /\ call[p].response.kind = "UnsupportedPlatform"
        /\ call[p].fetches = <<>>
        /\ Registry(user_handles) # <<>>

\* C20: roast_my_coding and recommend_problems called without handles work on
\* the stored handles, all of them, joined in their order, when there are any,
\* and return the fixed no-handles message without a fetch when there are
\* none; called with handles they work on the argument and never read the
\* registry.
C20_RegistryUse ==
    /\ [][\A p \in Slots :
             (Starts(p) /\ call'[p].tool \in {"roast", "recommend"}) =>
                 LET c == call'[p]
                     stored == Registry(user_handles)
                 IN  IF c.handles_arg # NoStr
                     THEN ~c.usedRegistry /\ c.handles = c.handles_arg
                     ELSE IF stored # <<>>
                     THEN /\ c.usedRegistry
                          /\ c.handles = Join(stored, <<",">>)
                          /\ c.response.kind # "NoHandles"
                     ELSE /\ ~c.usedRegistry
                          /\ c.pc = "done"
                          /\ c.response = Response("NoHandles")
                          /\ c.fetches = <<>>]_vars
    /\ [][\A p \in Slots :
             (call[p].tool \in {"roast", "recommend"} /\ call[p].pc = "await_fetch")
             => /\ call'[p].usedRegistry = call[p].usedRegistry
                /\ call'[p].handles = call[p].handles]_vars

\* with two handles stored, a call without handles fetched both of them
C20_Witness ==
    \E p \in Slots :
        /\ Len(Registry(user_handles)) = 2
        /\ call[p].tool \in {"roast", "recommend"}
        /\ call[p].pc = "done"
        /\ call[p].handles_arg = NoStr
        /\ call[p].usedRegistry
        /\ call[p].handles = Join(Registry(user_handles), <<",">>)
        /\ Len(call[p].fetches) = 2

(***************************************************************************)
(* Error markers                                                           *)
(***************************************************************************)
\* the failures of a run of fetch_codeforces_profile: user.info fails or
\* reports no such user, user.status fails, a record of the pass lacks a key
UserFailed == user_reply.failed \/ user_reply.status # "OK"

RecordMalformed ==
    /\ ~subs_reply.failed
    /\ subs_reply.status = "OK"
    /\ \E i \in 1..Len(subs_reply.result) : KeyRaises(subs_reply.result[i])

RunFailed == UserFailed \/ subs_reply.failed \/ RecordMalformed

\* registries a tool can find when the fetch returns
SomeRegistries == {EmptyDict, StoreHandle(EmptyDict, LEETCODE \o <<":", "b">>)}

\* an add_coding_profile, and a roast_my_coding or recommend_problems with one
\* pair, suspended at the Codeforces fetch of handle "a"
AwaitingAdd ==
    [NewCall("add") EXCEPT !.pc = "await_fetch", !.platform = CODEFORCES, !.handle = <<"a">>,
                           !.fetches = <<<<CODEFORCES, <<"a">>>>>>]

AwaitingPairs(tool) ==
    [NewCall(tool) EXCEPT !.pc = "await_fetch", !.platform = CODEFORCES, !.handle = <<"a">>,
                          !.handles_arg = CODEFORCES \o <<":", "a">>,
                          !.handles = CODEFORCES \o <<":", "a">>,
                          !.pairs = <<CODEFORCES \o <<":", "a">>>>,
                          !.fetches = <<<<CODEFORCES, <<"a">>>>>>]

\* the tools take the marker for a missing profile: add_coding_profile answers
\* not-found and stores nothing, the other two collect no profile
TakenAsMissing(marker) ==
    /\ \A uh \in SomeRegistries :
          LET r == AddFinish(AwaitingAdd, uh, marker)
          IN  /\ r.call.response = Response("ProfileNotFound")
              /\ r.user_handles = uh
    /\ \A tool \in {"roast", "recommend"} :
          LET c == ResumePairs(AwaitingPairs(tool), marker)
          IN  /\ c.profiles = <<>>
              /\ c.response = Response("NoValidProfiles")

\* C18: fetch_codeforces_profile never raises: when user.info reports no such
\* user, when a request fails in transport or its body cannot be parsed, and
\* when a submission record is malformed, it returns an error marker; every
\* tool takes any error marker for a missing profile.
C18_ErrorMarkers ==
    spc = "done" =>
        /\ ~sresult.raised
        /\ RunFailed <=> sresult.error
        /\ sresult.error => TakenAsMissing(sresult)

\* the pass met a record without contestId after it had counted others
C18_Witness ==
    /\ spc = "done"
    /\ sresult.error
    /\ sresult.message = "KeyError"
    /\ si = 3
    /\ TakenAsMissing(sresult)

(***************************************************************************)
(* The renderers generate_intelligent_roast and                            *)
(* generate_intelligent_recommendations                                    *)
(*                                                                         *)
(* A profile is a dict: keys is the set of its keys, the other fields hold *)
(* the values of the keys that are present. accuracyRate is in tenths of a *)
(* percent, as AccuracyRate gives it. A rendered text is the sequence of   *)
(* its pieces: each f-string or literal that the code appends is one       *)
(* piece, named by frag, with the values it interpolates.                  *)
(***************************************************************************)
Piece(frag, who, n, s) == [frag |-> frag, who |-> who, n |-> n, s |-> s]

Fixed(frag) == Piece(frag, NoStr, 0, NoStr)

\* profile.get(key, default)
Get(profile, key, default) == IF key \in profile.keys THEN profile[key] ELSE default

\* "error" in profile
HasError(profile) == "error" \in profile.keys

NoProfile ==
    [keys |-> {}, handle |-> NoStr, platform |-> NoStr, rating |-> 0, maxRating |-> 0,
     problemsSolved |-> 0, avgDifficulty |-> 0, topTags |-> <<>>,
     submissionPatterns |-> NoPatterns, recentActivity |-> 0, accuracyRate |-> 0]

\* {"error": ...}, lines 121 and 199
ErrorProfile == [NoProfile EXCEPT !.keys = {"error"}]

StatKeys ==
    {"handle", "rating", "maxRating", "rank", "maxRank", "problemsSolved", "registrationTime",
     "avgDifficulty", "topTags", "submissionPatterns", "recentActivity", "accuracyRate",
     "platform"}

StubKeys == {"handle", "rating", "problemsSolved", "note", "platform"}

\* lines 184-197 and 843: what fetch_codeforces_profile returns, with the
\* platform key that the tools add
CodeforcesProfile(handle, rating, maxRating, solved, avg, tags, patterns, recent, accuracy) ==
    [keys |-> StatKeys, handle |-> handle, platform |-> CODEFORCES, rating |-> rating,
     maxRating |-> maxRating, problemsSolved |-> solved, avgDifficulty |-> avg,
     topTags |-> tags, submissionPatterns |-> patterns, recentActivity |-> recent,
     accuracyRate |-> accuracy]

\* lines 205-210 and 848, lines 216-221 and 853
StubProfile(platform, handle, rating, solved) ==
    [NoProfile EXCEPT !.keys = StubKeys, !.handle = handle, !.platform = platform,
                      !.rating = rating, !.problemsSolved = solved]

Patterns(total, accepted, wrong_answer, time_limit) ==
    [NoPatterns EXCEPT !.total_submissions = total, !.accepted = accepted,
                       !.wrong_answer = wrong_answer, !.time_limit = time_limit]

\* the first n elements, list[:n]
FirstN(list, n) == SubSeq(list, 1, IF Len(list) < n THEN Len(list) ELSE n)

RECURSIVE Flatten(_)
Flatten(lists) == IF lists = <<>> THEN <<>> ELSE Head(lists) \o Flatten(Tail(lists))

\* lines 357-359: the rating dropped from its maximum
RatingPart(profile) ==
    LET rating == Get(profile, "rating", 0)
        max_rating == Get(profile, "maxRating", rating)
    IN  IF max_rating > 0 /\ rating < max_rating - 200 THEN <<"rating_drop">> ELSE <<>>

\* lines 361-366: the difficulty of the solved problems against the rating
DifficultyPart(profile) ==
    LET rating == Get(profile, "rating", 0)
        avg_difficulty == Get(profile, "avgDifficulty", 0)
    IN  IF avg_difficulty > 0 /\ rating > 0
        THEN IF avg_difficulty < rating - 300 THEN <<"playing_safe">>
             ELSE IF avg_difficulty > rating + 200 THEN <<"ambitious">>
             ELSE <<>>
        ELSE <<>>

\* lines 368-372; accuracy_rate is in tenths of a percent
AccuracyPart(profile) ==
    LET accuracy_rate == Get(profile, "accuracyRate", 0)
    IN  IF accuracy_rate < 200 THEN <<"lottery">>
        ELSE IF accuracy_rate < 400 THEN <<"broken_gps">>
        ELSE <<>>

\* lines 374-389
TagParts(profile) ==
    LET top_tags == Get(profile, "topTags", <<>>)
    IN  IF top_tags # <<>>
        THEN (IF top_tags[1][1] = "implementation" THEN <<"loves_implementation">>
              ELSE IF top_tags[1][1] = "math" THEN <<"math_enthusiast">>
              ELSE IF top_tags[1][1] = "greedy" THEN <<"greedy_lover">>
              ELSE IF top_tags[1][1] = "dp" THEN <<"dp_specialist">>
              ELSE <<>>)
             \o (IF Len(top_tags) < 3 THEN <<"few_topics">> ELSE <<>>)
        ELSE <<>>

\* lines 391-395
ActivityPart(profile) ==
    LET recent == Get(profile, "recentActivity", 0)
    IN  IF recent = 0 THEN <<"zero_activity">>
        ELSE IF recent < 5 THEN <<"low_activity">>
        ELSE <<>>

\* lines 397-406; the products total_subs * 0.4 and total_subs * 0.2 are taken
\* exactly
PatternParts(profile) ==
    IF "submissionPatterns" \in profile.keys
    THEN LET total_subs == profile.submissionPatterns.total_submissions
             wa_count == profile.submissionPatterns.wrong_answer
             tle_count == profile.submissionPatterns.time_limit
         IN  (IF 10 * wa_count > 4 * total_subs THEN <<"wrong_answers">> ELSE <<>>)
             \o (IF 10 * tle_count > 2 * total_subs THEN <<"time_limits">> ELSE <<>>)
    ELSE <<>>

\* a defect: the accuracy is looked at last, after the submission patterns
RoastPartsAccuracyLast(profile) ==
    RatingPart(profile) \o DifficultyPart(profile) \o TagParts(profile)
        \o ActivityPart(profile) \o PatternParts(profile) \o AccuracyPart(profile)

\* lines 355-406: roast_parts of one profile, each part named by its rule
RoastParts(profile) ==
    RatingPart(profile) \o DifficultyPart(profile) \o AccuracyPart(profile)
        \o TagParts(profile) \o ActivityPart(profile) \o PatternParts(profile)

\* the number a part interpolates first
PartValue(profile, part) ==
    IF part \in {"lottery", "broken_gps"} THEN Get(profile, "accuracyRate", 0)
    ELSE IF part \in {"playing_safe", "ambitious"} THEN Get(profile, "avgDifficulty", 0)
    ELSE IF part = "rating_drop" THEN Get(profile, "maxRating", Get(profile, "rating", 0))
    ELSE IF part = "low_activity" THEN Get(profile, "recentActivity", 0)
    ELSE IF part = "few_topics" THEN Len(Get(profile, "topTags", <<>>))
    ELSE 0

\* lines 409-431: the roast of one profile: the header, the first three parts
\* at most and a conclusion, or the fallback when no rule fired
MainRoast(profile) ==
    LET handle == Get(profile, "handle", NoStr)
        rating == Get(profile, "rating", 0)
        platform == Get(profile, "platform", NoStr)
        problems_solved == Get(profile, "problemsSolved", 0)
        roast_parts == RoastParts(profile)
        used == FirstN(roast_parts, 3)
    IN  IF roast_parts # <<>>
        THEN <<Piece("roast_header", handle, rating, platform)>>
             \o [i \in 1..Len(used) |->
                    Piece(used[i], handle, PartValue(profile, used[i]), platform)]
             \o (IF problems_solved < 100
                 THEN <<Piece("tutorial_mode", handle, problems_solved, platform)>>
                 ELSE IF rating > 0 /\ rating < 1200
                 THEN <<Piece("newbie_barrier", handle, problems_solved, platform)>>
                 ELSE IF rating >= 1200
                 THEN <<Piece("mediocrity", handle, problems_solved, platform)>>
                 ELSE <<>>)
        ELSE <<Piece("not_enough_data", handle, problems_solved, platform)>>

Rendered(text) == [raised |-> FALSE, text |-> text]

RenderRaised == [raised |-> TRUE, text |-> <<>>]

\* lines 334-440
generate_intelligent_roast(profiles) ==
    LET valid == SelectSeq(profiles, LAMBDA profile : ~HasError(profile))
        roasts == [i \in 1..Len(valid) |-> MainRoast(valid[i])]
    IN  IF roasts = <<>> THEN Rendered(<<Fixed("no_profiles_to_roast")>>)
        ELSE Rendered(<<Fixed("roast_title")>> \o Flatten(roasts) \o <<Fixed("roast_end")>>)

\* s.replace(pat, ""): every occurrence of pat, from the left, is taken out
RECURSIVE Remove(_, _)
Remove(s, pat) ==
    IF Len(s) < Len(pat) THEN s
    ELSE IF SubSeq(s, 1, Len(pat)) = pat THEN Remove(SubSeq(s, Len(pat) + 1, Len(s)), pat)
    ELSE <<Head(s)>> \o Remove(Tail(s), pat)

\* line 450
companies ==
    <<<<"g","o","o","g","l","e">>,
      <<"m","e","t","a">>,
      <<"f","a","c","e","b","o","o","k">>,
      <<"a","m","a","z","o","n">>,
      <<"m","i","c","r","o","s","o","f","t">>,
      <<"a","p","p","l","e">>,
      <<"n","e","t","f","l","i","x">>,
      <<"u","b","e","r">>,
      <<"a","i","r","b","n","b">>,
      <<"t","w","i","t","t","e","r">>,
      <<"l","i","n","k","e","d","i","n">>,
      <<"s","a","l","e","s","f","o","r","c","e">>>>

GOOGLE == companies[1]
META == companies[2]
FACEBOOK == companies[3]
AMAZON == companies[4]
MICROSOFT == companies[5]

GENERAL == <<"g","e","n","e","r","a","l">>
INTERVIEW == <<"i","n","t","e","r","v","i","e","w">>
JOB == <<"j","o","b">>
CONTEST == <<"c","o","n","t","e","s","t">>
COMPETITIVE == <<"c","o","m","p","e","t","i","t","i","v","e">>
CP == <<"c","p">>

\* a defect: the name of the company stays in the goal
ParseCompanyKeepGoal(goal) ==
    LET goal_lower == Lower(goal)
        found == {i \in 1..Len(companies) : IsSubstring(companies[i], goal_lower)}
    IN  IF found = {} THEN [company |-> NoStr, goal |-> goal]
        ELSE [company |-> companies[CHOOSE i \in found : \A j \in found : i <= j],
              goal |-> Strip(goal_lower)]

\* lines 447-455: the first company of the list that the lower-cased goal
\* contains, and the goal without it
ParseCompany(goal) ==
    LET goal_lower == Lower(goal)
        found == {i \in 1..Len(companies) : IsSubstring(companies[i], goal_lower)}
    IN  IF found = {} THEN [company |-> NoStr, goal |-> goal]
        ELSE LET comp == companies[CHOOSE i \in found : \A j \in found : i <= j]
             IN  [company |-> comp, goal |-> Strip(Remove(goal_lower, comp))]

\* lines 477-478: the highest rating, 0 at least
RECURSIVE MaxRating(_)
MaxRating(valid) ==
    IF valid = <<>> THEN 0
    ELSE LET rest == MaxRating(SubSeq(valid, 1, Len(valid) - 1))
             rating == Get(valid[Len(valid)], "rating", 0)
         IN  IF rating > rest THEN rating ELSE rest

\* line 480: platform_data, a dict keyed by platform: a key keeps the place of
\* its first insertion and holds the profile inserted last
RECURSIVE PlatformData(_)
PlatformData(valid) ==
    IF valid = <<>> THEN <<>>
    ELSE LET before == PlatformData(SubSeq(valid, 1, Len(valid) - 1))
             profile == valid[Len(valid)]
             platform == Get(profile, "platform", NoStr)
             at == {i \in 1..Len(before) : Get(before[i], "platform", NoStr) = platform}
         IN  IF at = {} THEN Append(before, profile)
             ELSE [before EXCEPT ![CHOOSE i \in at : TRUE] = profile]

\* lines 485-489
AccuracyIssue(profile) ==
    LET accuracy == Get(profile, "accuracyRate", 0)
        platform == Get(profile, "platform", NoStr)
    IN  IF accuracy < 400 THEN <<Piece("very_low_accuracy", NoStr, accuracy, platform)>>
        ELSE IF accuracy < 650 THEN <<Piece("moderate_accuracy", NoStr, accuracy, platform)>>
        ELSE <<>>

\* lines 491-496
WeakTopic(profile) ==
    LET rating == Get(profile, "rating", 0)
        avg_difficulty == Get(profile, "avgDifficulty", 0)
        platform == Get(profile, "platform", NoStr)
    IN  IF rating > 0 /\ avg_difficulty > 0
        THEN IF avg_difficulty < rating - 200
             THEN <<Piece("playing_too_safe", NoStr, 0, platform)>>
             ELSE IF avg_difficulty > rating + 300
             THEN <<Piece("overreaching", NoStr, 0, platform)>>
             ELSE <<>>
        ELSE <<>>

\* lines 498-500
RecentPattern(profile) ==
    IF Get(profile, "recentActivity", 0) = 0
    THEN <<Piece("no_recent_activity", NoStr, 0, Get(profile, "platform", NoStr))>>
    ELSE <<>>

\* lines 502-522
Level(max_rating) ==
    IF max_rating = 0 THEN "level_beginner"
    ELSE IF max_rating < 1200 THEN "level_newbie"
    ELSE IF max_rating < 1600 THEN "level_pupil_specialist"
    ELSE IF max_rating < 1900 THEN "level_expert"
    ELSE "level_master"

\* lines 525-530
Title(company, goal, max_rating) ==
    <<Fixed("title")>>
    \o (IF company # NoStr THEN <<Piece("title_company", NoStr, 0, company)>> ELSE <<>>)
    \o (IF goal # NoStr /\ goal # GENERAL THEN <<Piece("title_goal", NoStr, 0, goal)>> ELSE <<>>)
    \o <<Fixed(Level(max_rating))>>

\* lines 535-547: one line for each platform of platform_data
ProfileSummary(valid) ==
    LET platform_data == PlatformData(valid)
    IN  <<Fixed("profile_analysis")>>
        \o [i \in 1..Len(platform_data) |->
               Piece("profile_line", Get(platform_data[i], "handle", NoStr),
                     Get(platform_data[i], "rating", 0),
                     Get(platform_data[i], "platform", NoStr))]

\* lines 549-601: the company section. No fetcher sets favoriteTopics, so
\* favorite_topics is empty and holds no "graphs"; avg_difficulty is the one of
\* the last valid profile of the loop of lines 466-500.
CompanySection(company, valid) ==
    LET max_rating == MaxRating(valid)
        accuracy_issues == Flatten([i \in 1..Len(valid) |-> AccuracyIssue(valid[i])])
        avg_difficulty == Get(valid[Len(valid)], "avgDifficulty", 0)
    IN  IF company = NoStr THEN <<>>
        ELSE <<Piece("company_strategy", NoStr, 0, company)>>
             \o (IF company = GOOGLE
                 THEN <<Fixed("google_focus"), Fixed("google_graphs_critical")>>
                      \o (IF max_rating < 1400 THEN <<Fixed("google_rating_gap")>> ELSE <<>>)
                 ELSE IF company \in {META, FACEBOOK}
                 THEN <<Fixed("meta_focus")>>
                      \o (IF \E i \in 1..Len(accuracy_issues) :
                                accuracy_issues[i].frag = "very_low_accuracy"
                          THEN <<Fixed("meta_accuracy_critical")>> ELSE <<>>)
                 ELSE IF company = AMAZON
                 THEN <<Fixed("amazon_focus")>>
                      \o (IF avg_difficulty < max_rating - 100
                          THEN <<Fixed("amazon_challenge")>> ELSE <<>>)
                 ELSE IF company = MICROSOFT
                 THEN <<Fixed("microsoft_focus")>>
                 ELSE <<>>)

\* lines 603-670: the section of the goal; favorite_topics is empty, so all
\* five essential topics are missing and the first two, arrays and strings,
\* have no line of their own
GoalSection(company, goal, valid) ==
    LET max_rating == MaxRating(valid)
        accuracy_issues == Flatten([i \in 1..Len(valid) |-> AccuracyIssue(valid[i])])
    IN  IF goal \in {INTERVIEW, JOB} \/ company # NoStr
        THEN <<Fixed("interview_preparation")>>
             \o <<Fixed(IF max_rating < 1000 THEN "phase_1"
                        ELSE IF max_rating < 1400 THEN "phase_2"
                        ELSE "advanced_phase")>>
             \o (IF accuracy_issues # <<>>
                 THEN <<Fixed("accuracy_plan")>> \o FirstN(accuracy_issues, 2)
                      \o <<Fixed("accuracy_practice")>>
                 ELSE <<>>)
             \o <<Fixed("missing_topics")>>
        ELSE IF goal \in {CONTEST, COMPETITIVE, CP}
        THEN <<Fixed("contest_strategy")>>
             \o <<Fixed(IF max_rating < 1200 THEN "target_div3"
                        ELSE IF max_rating < 1600 THEN "target_div2_abc"
                        ELSE "target_div2_ad")>>
        ELSE <<>>

\* lines 672-707
Closing(valid) ==
    LET weak_topics == Flatten([i \in 1..Len(valid) |-> WeakTopic(valid[i])])
        recent_patterns == Flatten([i \in 1..Len(valid) |-> RecentPattern(valid[i])])
        best == CHOOSE a \in {Get(valid[i], "accuracyRate", 0) : i \in 1..Len(valid)} :
                    \A i \in 1..Len(valid) : Get(valid[i], "accuracyRate", 0) <= a
        target == (best + 100) \div 10
    IN  <<Fixed("specific_problems")>>
        \o (IF weak_topics # <<>>
            THEN <<Fixed("weak_areas")>> \o FirstN(weak_topics, 2) ELSE <<>>)
        \o (IF recent_patterns # <<>>
            THEN <<Fixed("activity_concerns")>> \o FirstN(recent_patterns, 2)
                 \o <<Fixed("comeback_plan")>>
            ELSE <<>>)
        \o <<Fixed("action_plan"),
             Piece("success_metrics", NoStr, IF target > 70 THEN target ELSE 70, NoStr)>>

\* lines 447-709: the function after the test of line 444. Without a valid
\* profile max() of line 704 has nothing to take the maximum of and raises.
RecommendationsBody(profiles, goal_arg) ==
    LET parsed == ParseCompany(goal_arg)
        valid == SelectSeq(profiles, LAMBDA profile : ~HasError(profile))
    IN  IF valid = <<>> THEN RenderRaised
        ELSE Rendered(Title(parsed.company, parsed.goal, MaxRating(valid))
                      \o ProfileSummary(valid)
                      \o CompanySection(parsed.company, valid)
                      \o GoalSection(parsed.company, parsed.goal, valid)
                      \o Closing(valid))

\* a defect: line 444 tests only for the empty list
RecommendationsEmptyOnly(profiles, goal_arg) ==
    IF profiles = <<>> THEN Rendered(<<Fixed("no_valid_profiles_found")>>)
    ELSE RecommendationsBody(profiles, goal_arg)

\* lines 442-709
generate_intelligent_recommendations(profiles, goal_arg) ==
    IF profiles = <<>> \/ \A i \in 1..Len(profiles) : HasError(profiles[i])
    THEN Rendered(<<Fixed("no_valid_profiles_found")>>)
    ELSE RecommendationsBody(profiles, goal_arg)

(***************************************************************************)
(* SpecRender: one call of a renderer                                      *)
(***************************************************************************)
MaxProfiles == 2

\* profiles as the tools collect them, and error markers: a user whose rating
\* dropped and who fires every rule, one who fires none, a new user without
\* submissions, one with an accuracy of 30.0, and a LeetCode stub
ProfileKinds ==
    {CodeforcesProfile(<<"a">>, 1200, 1500, 10, 800, <<<<"math", 3>>>>,
                       Patterns(20, 3, 10, 5), 0, 150),
     CodeforcesProfile(<<"b">>, 1500, 1500, 150, 1500,
                       <<<<"graphs", 9>>, <<"dp", 5>>, <<"trees", 2>>>>,
                       Patterns(10, 7, 1, 0), 6, 700),
     CodeforcesProfile(<<"c">>, 0, 0, 0, 0, <<>>, NoPatterns, 0, 0),
     CodeforcesProfile(<<"a">>, 1900, 1900, 300, 1700,
                       <<<<"graphs", 9>>, <<"dp", 5>>, <<"trees", 2>>>>,
                       Patterns(10, 3, 2, 1), 7, 300),
     StubProfile(LEETCODE, <<"b">>, 1500, 150),
     ErrorProfile}

\* goal arguments: "general", "interview google", "Interview", "contest",
\* "contest google", "job at Meta", "amazon prep", "netflix"
RenderGoals ==
    {GENERAL,
     INTERVIEW \o <<" ">> \o GOOGLE,
     <<"I">> \o Tail(INTERVIEW),
     CONTEST,
     CONTEST \o <<" ">> \o GOOGLE,
     JOB \o <<" ", "a", "t", " ", "M">> \o Tail(META),
     AMAZON \o <<" ", "p", "r", "e", "p">>,
     companies[7]}

RenderInit ==
    /\ rpc = "start"
    /\ rprofiles \in SeqsUpTo(ProfileKinds, MaxProfiles)
    /\ rgoal \in RenderGoals
    /\ rresult = Rendered(<<>>)

\* generate_intelligent_roast(profiles) is called
RenderRoast ==
    /\ rpc = "start"
    /\ rresult' = generate_intelligent_roast(rprofiles)
    /\ rpc' = "roast"
    /\ UNCHANGED <<rprofiles, rgoal>>
    /\ UNCHANGED <<toolVars, contestVars, statVars>>

\* generate_intelligent_recommendations(profiles, goal) is called
RenderRecommendations ==
    /\ rpc = "start"
    /\ rresult' = generate_intelligent_recommendations(rprofiles, rgoal)
    /\ rpc' = "recommend"
    /\ UNCHANGED <<rprofiles, rgoal>>
    /\ UNCHANGED <<toolVars, contestVars, statVars>>

InitRender == RenderInit /\ ToolsInit /\ ContestsParked /\ StatsParked

NextRender ==
    \/ RenderRoast
    \/ RenderRecommendations

SpecRender == InitRender /\ [][NextRender]_vars

(***************************************************************************)
(* Properties of the renderers                                             *)
(***************************************************************************)
\* the pieces of a text that are named by one of frags, in their order
PiecesOf(text, frags) == SelectSeq(text, LAMBDA piece : piece.frag \in frags)

\* the valid profiles of the call whose accuracyRate is below 20
LowAccuracy ==
    SelectSeq(rprofiles, LAMBDA profile :
                 ~HasError(profile) /\ Get(profile, "accuracyRate", 0) < 200)

\* C14: for every valid profile with an accuracyRate below 20 the text of
\* generate_intelligent_roast holds the lottery fragment of that profile, with
\* its handle and its rate, whatever other rules fire for it: the lottery
\* fragments of the text are those of these profiles, one each, in their order.
C14_Lottery ==
    rpc = "roast" =>
        LET lottery == PiecesOf(rresult.text, {"lottery"})
        IN  /\ ~rresult.raised
            /\ Len(lottery) = Len(LowAccuracy)
            /\ \A i \in 1..Len(lottery) :
                  /\ lottery[i].who = Get(LowAccuracy[i], "handle", NoStr)
                  /\ lottery[i].n = Get(LowAccuracy[i], "accuracyRate", 0)

\* a profile with an accuracy of 15.0 fires eight rules, of which three are
\* rendered; the lottery fragment is the third
C14_Witness ==
    /\ rpc = "roast"
    /\ Len(rprofiles) = 2
    /\ HasError(rprofiles[1])
    /\ rprofiles[2].accuracyRate = 150
    /\ Len(RoastParts(rprofiles[2])) = 8
    /\ Len(rresult.text) = 7
    /\ rresult.text[5] = Piece("lottery", <<"a">>, 150, CODEFORCES)

\* the fixed text of line 445 was returned
NoValidProfilesFound == rresult = Rendered(<<Fixed("no_valid_profiles_found")>>)

\* the pieces of the company section of lines 549-601
CompanyFrags ==
    {"company_strategy", "google_focus", "google_graphs_critical", "google_rating_gap",
     "meta_focus", "meta_accuracy_critical", "amazon_focus", "amazon_challenge",
     "microsoft_focus"}

\* the goal names a company of the list of line 450, in any case of letters
NamesCompany(goal) == \E i \in 1..Len(companies) : IsSubstring(companies[i], Lower(goal))

\* the company and the goal that each goal argument of RenderGoals is to be
\* split into
ExpectedSplit ==
    {<<GENERAL, NoStr, GENERAL>>,
     <<INTERVIEW \o <<" ">> \o GOOGLE, GOOGLE, INTERVIEW>>,
     <<<<"I">> \o Tail(INTERVIEW), NoStr, <<"I">> \o Tail(INTERVIEW)>>,
     <<CONTEST, NoStr, CONTEST>>,
     <<CONTEST \o <<" ">> \o GOOGLE, GOOGLE, CONTEST>>,
     <<JOB \o <<" ", "a", "t", " ", "M">> \o Tail(META), META, JOB \o <<" ", "a", "t">>>>,
     <<AMAZON \o <<" ", "p", "r", "e", "p">>, AMAZON, <<"p", "r", "e", "p">>>>,
     <<companies[7], companies[7], NoStr>>}

\* what the title shows of a company and a goal: the company when there is
\* one, the goal when it is neither empty nor "general"
Shown(company, goal) ==
    (IF company # NoStr THEN <<Piece("title_company", NoStr, 0, company)>> ELSE <<>>)
    \o (IF goal # NoStr /\ goal # GENERAL THEN <<Piece("title_goal", NoStr, 0, goal)>> ELSE <<>>)

\* C15: generate_intelligent_recommendations splits a goal that embeds a known
\* company into the company and the remaining goal ("interview google" gives
\* "google" and "interview"), both shown in the title, and the text holds the
\* company section exactly when the goal names a company of the list.
C15_CompanySplit ==
    (rpc = "recommend" /\ ~NoValidProfilesFound) =>
        LET text == rresult.text
            section == PiecesOf(text, CompanyFrags)
        IN  /\ ~rresult.raised
            /\ \A split \in ExpectedSplit :
                  rgoal = split[1] =>
                      /\ PiecesOf(text, {"title_company", "title_goal"})
                            = Shown(split[2], split[3])
                      /\ split[2] # NoStr
                            => section[1] = Piece("company_strategy", NoStr, 0, split[2])
            /\ section # <<>> <=> NamesCompany(rgoal)
            /\ rgoal = INTERVIEW \o <<" ">> \o GOOGLE =>
                  /\ Piece("title_company", NoStr, 0, GOOGLE) \in Range(text)
                  /\ Piece("title_goal", NoStr, 0, INTERVIEW) \in Range(text)
                  /\ Fixed("google_focus") \in Range(text)

\* "interview google" was split for a user rated below 1400
C15_Witness ==
    /\ rpc = "recommend"
    /\ rgoal = INTERVIEW \o <<" ">> \o GOOGLE
    /\ Len(rprofiles) = 1
    /\ rprofiles[1].rating = 1200
    /\ SubSeq(rresult.text, 1, 4)
          = <<Fixed("title"), Piece("title_company", NoStr, 0, GOOGLE),
              Piece("title_goal", NoStr, 0, INTERVIEW), Fixed("level_pupil_specialist")>>
    /\ PiecesOf(rresult.text, CompanyFrags)
          = <<Piece("company_strategy", NoStr, 0, GOOGLE), Fixed("google_focus"),
              Fixed("google_graphs_critical"), Fixed("google_rating_gap")>>

\* C19: generate_intelligent_roast and generate_intelligent_recommendations
\* return a non-empty text without raising for every list of profiles, the
\* empty list and a list of error markers included, and leave the profiles as
\* they were given.
C19_Total ==
    /\ [](rpc \in {"roast", "recommend"} => ~rresult.raised /\ rresult.text # <<>>)
    /\ [](rpc = "roast" /\ (\A i \in 1..Len(rprofiles) : HasError(rprofiles[i]))
             => rresult = Rendered(<<Fixed("no_profiles_to_roast")>>))
    /\ [](rpc = "recommend" /\ (\A i \in 1..Len(rprofiles) : HasError(rprofiles[i]))
             => NoValidProfilesFound)
    /\ [][rprofiles' = rprofiles]_vars

\* the recommendations were asked for two error markers
C19_Witness ==
    /\ rpc = "recommend"
    /\ rprofiles = <<ErrorProfile, ErrorProfile>>
    /\ NoValidProfilesFound

(***************************************************************************)
(* Properties of the stored strings                                        *)
(***************************************************************************)
IsPrefix(s, t) == Len(s) <= Len(t) /\ SubSeq(t, 1, Len(s)) = s

\* C21: a successful add_coding_profile response lists the whole registry as
\* it is when the response is built, in its order, and the list holds the
\* "platform:handle" string of the call, also when the string was stored
\* before and when other add_coding_profile calls are in flight; what a
\* response listed stays the beginning of the registry.
C21_EchoesRegistry ==
    /\ [][\A p \in Slots :
             (Steps(p) /\ Verified(call'[p])) =>
                 /\ call'[p].response.stored = Registry(user_handles')
                 /\ HandleString(call'[p]) \in Range(call'[p].response.stored)]_vars
    /\ [](\A p \in Slots :
             Verified(call[p]) =>
                 /\ IsPrefix(call[p].response.stored, Registry(user_handles))
                 /\ HandleString(call[p]) \in Range(call[p].response.stored))

\* two calls were suspended at their fetches together: the one that resumed
\* first listed its own string, the other one listed both, in that order
C21_Witness ==
    \E p, q \in Slots :
        /\ p # q
        /\ Verified(call[p])
        /\ Verified(call[q])
        /\ call[p].overlapped
        /\ call[p].response.stored = <<HandleString(call[p])>>
        /\ call[q].response.stored = <<HandleString(call[p]), HandleString(call[q])>>
        /\ Registry(user_handles) = call[q].response.stored

\* s is platform:handle for a supported platform in lower case and a
\* non-empty handle
WellFormed(s) ==
    \E platform \in Supported :
        /\ IsPrefix(platform \o <<":">>, s)
        /\ Len(s) > Len(platform) + 1

\* C22: every stored string is platform:handle with platform one of
\* codeforces, leetcode, codechef in lower case and a non-empty handle; the
\* registry changes only in the step of an add_coding_profile call that
\* returns successfully, with a fetched profile that is no error marker; a call
\* that returns the not-found message leaves the registry as it was.
C22_StoredStrings ==
    /\ [](\A i \in 1..Len(Registry(user_handles)) : WellFormed(Registry(user_handles)[i]))
    /\ [][Registry(user_handles') # Registry(user_handles) =>
             \E p \in Slots :
                 /\ Steps(p)
                 /\ Verified(call'[p])
                 /\ Len(call'[p].fetches) = 1
                 /\ ~call'[p].response.profiles[1].error
                 /\ Registry(user_handles')
                       = Append(Registry(user_handles), HandleString(call'[p]))]_vars
    /\ [][\A p \in Slots :
             (Steps(p) /\ call'[p].tool = "add" /\ call'[p].response.kind = "ProfileNotFound")
             => user_handles' = user_handles]_vars

\* with a string stored, a call for another handle ended in the not-found
\* message; the platform of the stored string was given in mixed case
C22_Witness ==
    \E p, q \in Slots :
        /\ Registry(user_handles) = <<HandleString(call[q])>>
        /\ Verified(call[q])
        /\ call[q].platform = LEETCODE
        /\ call[p].tool = "add"
        /\ call[p].pc = "done"
        /\ call[p].response.kind = "ProfileNotFound"
        /\ HandleString(call[p]) \notin Range(Registry(user_handles))

\* the (platform, handle) of a stored string: a supported platform holds no
\* colon, so the string is cut at its first colon
StoredPair(s) == Split1(s, ":")

\* C23: a roast_my_coding or recommend_problems call without handles argument
\* fetches, for each string that was stored when it started, the platform and
\* the handle that add_coding_profile stored, once each and in their order.
C23_RoundTrip ==
    \A p \in Slots :
        (/\ call[p].tool \in {"roast", "recommend"}
         /\ call[p].pc = "done"
         /\ call[p].usedRegistry)
        => \E k \in 1..Len(Registry(user_handles)) :
              LET stored == SubSeq(Registry(user_handles), 1, k)
              IN  /\ call[p].handles = Join(stored, <<",">>)
                  /\ call[p].fetches = [i \in 1..k |-> StoredPair(stored[i])]

(***************************************************************************)
(* Which entries the truncation keeps                                      *)
(***************************************************************************)
\* the merged entries whose start lies in the 30-day window of line 329
InWindow == SelectSeq(contests, LAMBDA c : /\ c.start_time > final_time
                                           /\ c.start_time < final_time + WINDOW)

\* the entries of the window that the returned list leaves out
Omitted == {e \in Range(InWindow) : Occurrences(cresult.list, e) < Occurrences(InWindow, e)}

\* C24: when more than 15 merged entries lie in the window, the call returns
\* 15 of them, and no entry of the window that it leaves out starts strictly
\* earlier than an entry it returns.
C24_EarliestFifteen ==
    (Returned /\ Len(InWindow) > TOP) =>
        /\ Len(cresult.list) = TOP
        /\ \A e \in Range(cresult.list) :
              Occurrences(cresult.list, e) <= Occurrences(InWindow, e)
        /\ \A o \in Omitted : \A r \in Range(cresult.list) :
              ~(o.start_time < r.start_time)

\* entries of the window were left out, one of them starts strictly later than
\* every returned entry and one starts together with the last returned entry
C24_Witness ==
    /\ Returned
    /\ Len(InWindow) > TOP
    /\ \E o \in Omitted : \A r \in Range(cresult.list) : o.start_time > r.start_time
    /\ \E o \in Omitted : o.start_time = cresult.list[TOP].start_time

(***************************************************************************)
(* Which goal-specific section is rendered                                 *)
(***************************************************************************)
\* the first pieces of the two goal-specific sections of lines 604-670
SectionFrags == {"interview_preparation", "contest_strategy"}

\* C25: the goal-specific section of generate_intelligent_recommendations is
\* chosen by the goal that is left after the company was taken out of it: the
\* contest-strategy section for contest, competitive or cp, and the
\* interview-preparation section for interview or job, whether or not the goal
\* argument names a company.
C25_SectionFollowsGoal ==
    (rpc = "recommend" /\ ~NoValidProfilesFound) =>
        \A split \in ExpectedSplit :
            split[1] = rgoal =>
                LET section == PiecesOf(rresult.text, SectionFrags)
                IN  /\ split[3] \in {CONTEST, COMPETITIVE, CP}
                          => section = <<Fixed("contest_strategy")>>
                    /\ split[3] \in {INTERVIEW, JOB}
                          => section = <<Fixed("interview_preparation")>>

====
